---------------------------- MODULE Spec2Model ----------------------------
(***************************************************************************)
(* Model of the dataset ingestion core of src/app.py: format detection,    *)
(* raw parsing, column mapping, standardization and the staged             *)
(* Preview / Apply-mapping / Import / Cancel workflow of dataset_manager.  *)
(*                                                                         *)
(* Text is modelled as TLA+ strings, read character by character with      *)
(* SubSeq.  A raw table (a pandas DataFrame) is a record                   *)
(*   [cols |-> sequence of column names, rows |-> sequence of rows],       *)
(* a row being a function from column name to cell, and a cell a record    *)
(*   [k |-> kind, v |-> text] with kind "s" (str), "i" (int64),            *)
(*   "f" (float64), "nan" (NaN) or "none" (None); v is what str() gives.   *)
(* An absent session key (st.session_state.get(...) is None) is <<>>, a    *)
(* present one <<value>>.                                                  *)
(***************************************************************************)
EXTENDS Integers, Sequences, FiniteSets, TLC

(***************************************************************************)
(* Strings                                                                 *)
(***************************************************************************)
\* Body applied to the value v, which is computed once
With(v, Body(_)) == Body(v)

\* s[i-1] in Python terms, "" outside the string
At(s, i) == IF i >= 1 /\ i <= Len(s) THEN SubSeq(s, i, i) ELSE ""

\* s[a-1:b], clipped to the string
Sub(s, a, b) ==
    IF a > b \/ a > Len(s) THEN "" ELSE SubSeq(s, IF a < 1 THEN 1 ELSE a, IF b > Len(s) THEN Len(s) ELSE b)

Drop(s, n) == SubSeq(s, n + 1, Len(s))

DigitChars == {"0", "1", "2", "3", "4", "5", "6", "7", "8", "9"}

IsDigit(c) == c \in DigitChars

\* the first index from i on whose character is in the set cs, Len(s) + 1 if none
FirstIn(s, i, cs) ==
    IF \E k \in i..Len(s) : At(s, k) \in cs
    THEN CHOOSE k \in i..Len(s) : At(s, k) \in cs /\ \A j \in i..(k - 1) : At(s, j) \notin cs
    ELSE Len(s) + 1

\* the first index from i on whose character is not in the set cs, Len(s) + 1 if none
FirstNotIn(s, i, cs) ==
    IF \E k \in i..Len(s) : At(s, k) \notin cs
    THEN CHOOSE k \in i..Len(s) : At(s, k) \notin cs /\ \A j \in i..(k - 1) : At(s, j) \in cs
    ELSE Len(s) + 1

Spaces == {" ", "\t", "\n", "\r"}

\* str.strip()
Strip(s) ==
    LET a == FirstNotIn(s, 1, Spaces)
        b == IF a > Len(s) THEN 0
             ELSE CHOOSE k \in a..Len(s) :
                      At(s, k) \notin Spaces /\ \A j \in (k + 1)..Len(s) : At(s, j) \in Spaces
    IN  Sub(s, a, b)

Uppers == "ABCDEFGHIJKLMNOPQRSTUVWXYZ"

Lowers == "abcdefghijklmnopqrstuvwxyz"

LowerChar(c) ==
    IF \E i \in 1..Len(Uppers) : At(Uppers, i) = c
    THEN At(Lowers, CHOOSE i \in 1..Len(Uppers) : At(Uppers, i) = c)
    ELSE c

RECURSIVE MapRange(_, _, _, _)
\* Op applied to each character of s[a..b], the results joined
MapRange(s, Op(_), a, b) ==
    IF a > b THEN ""
    ELSE IF a = b THEN Op(At(s, a))
    ELSE MapRange(s, Op, a, (a + b) \div 2) \o MapRange(s, Op, (a + b) \div 2 + 1, b)

\* str.lower()
Lower(s) == MapRange(s, LowerChar, 1, Len(s))

\* needle in hay
Contains(hay, needle) ==
    \E i \in 1..(Len(hay) - Len(needle) + 1) : SubSeq(hay, i, i + Len(needle) - 1) = needle

StartsWith(s, p) == Len(s) >= Len(p) /\ SubSeq(s, 1, Len(p)) = p

RECURSIVE Split(_, _)
\* str.split(sep) for a one-character sep
Split(s, sep) ==
    LET i == FirstIn(s, 1, {sep})
    IN  IF i > Len(s) THEN <<s>> ELSE <<Sub(s, 1, i - 1)>> \o Split(Drop(s, i), sep)

\* str.splitlines() on text whose only line break is "\n"
SplitLines(s) ==
    IF s = "" THEN <<>>
    ELSE With(Split(s, "\n"), LAMBDA parts :
            IF parts[Len(parts)] = "" THEN SubSeq(parts, 1, Len(parts) - 1) ELSE parts)

\* every character of s replaced through the function f (others kept)
MapChars(s, f) == MapRange(s, LAMBDA c : IF c \in DOMAIN f THEN f[c] ELSE c, 1, Len(s))

\* s without the characters of the set drop
RemoveChars(s, drop) == MapRange(s, LAMBDA c : IF c \in drop THEN "" ELSE c, 1, Len(s))

\* the characters of s that are in the set keep
FilterChars(s, keep) == MapRange(s, LAMBDA c : IF c \in keep THEN c ELSE "", 1, Len(s))

Range(f) == {f[x] : x \in DOMAIN f}

Min2(a, b) == IF a < b THEN a ELSE b

Max2(a, b) == IF a > b THEN a ELSE b

\* Optional values: an absent session key or a Python None
None == <<>>

Some(x) == <<x>>

(***************************************************************************)
(* Program constants                                                       *)
(***************************************************************************)
REQUIRED_COLUMNS ==
    <<"SupplierID", "Deliverdate", "CustomerID", "LicenseNo", "Category", "UDID",
      "DeviceNAME", "LotNO", "SerNo", "Model", "Number">>

MIN_IMPORT_COLUMNS == <<"SupplierID", "Deliverdate", "CustomerID", "Model", "Number">>

\* the dict ALIASES, in its source order
ALIASES ==
    << <<"supplierid", "SupplierID">>, <<"supplier_id", "SupplierID">>,
       <<"supplier", "SupplierID">>, <<"vendor", "SupplierID">>,
       <<"deliverdate", "Deliverdate">>, <<"deliver_date", "Deliverdate">>,
       <<"deliverydate", "Deliverdate">>, <<"delivery_date", "Deliverdate">>,
       <<"date", "Deliverdate">>,
       <<"customerid", "CustomerID">>, <<"customer_id", "CustomerID">>,
       <<"customer", "CustomerID">>, <<"client", "CustomerID">>,
       <<"licenseno", "LicenseNo">>, <<"license_no", "LicenseNo">>,
       <<"license", "LicenseNo">>, <<"permit", "LicenseNo">>,
       <<"category", "Category">>, <<"product_category", "Category">>,
       <<"device_category", "Category">>,
       <<"udid", "UDID">>, <<"udi", "UDID">>, <<"primary_di", "UDID">>,
       <<"devicename", "DeviceNAME">>, <<"device_name", "DeviceNAME">>,
       <<"device", "DeviceNAME">>, <<"product", "DeviceNAME">>,
       <<"lotno", "LotNO">>, <<"lot_no", "LotNO">>, <<"lot", "LotNO">>,
       <<"batch", "LotNO">>,
       <<"serno", "SerNo">>, <<"ser_no", "SerNo">>, <<"serial", "SerNo">>,
       <<"serialno", "SerNo">>, <<"serial_no", "SerNo">>,
       <<"model", "Model">>, <<"modelno", "Model">>, <<"model_no", "Model">>,
       <<"number", "Number">>, <<"qty", "Number">>, <<"quantity", "Number">>,
       <<"units", "Number">>, <<"count", "Number">> >>

\* Stand-ins for the non-ASCII characters normalize_smart_quotes replaces:
\* U+201C, U+201D, U+2018, U+2019 and the fullwidth comma U+FF0C.
LDQUO == "<"

RDQUO == ">"

LSQUO == "#"

RSQUO == "@"

FWCOMMA == ";"

SmartMap ==
    [c \in {LDQUO, RDQUO, LSQUO, RSQUO, FWCOMMA} |->
        CASE c = LDQUO -> "\""
          [] c = RDQUO -> "\""
          [] c = LSQUO -> "'"
          [] c = RSQUO -> "'"
          [] OTHER -> ","]

normalize_smart_quotes(text) == MapChars(text, SmartMap)

(***************************************************************************)
(* Cells and tables (pandas DataFrame)                                     *)
(***************************************************************************)
Cell(kind, text) == [k |-> kind, v |-> text]

NaN == Cell("nan", "nan")

\* pd.DataFrame(): no columns, no rows
EmptyFrame == [cols |-> <<>>, rows |-> <<>>]

\* df.empty: no rows or no columns
IsEmptyFrame(df) == Len(df.cols) = 0 \/ Len(df.rows) = 0

SeqToSet(q) == {q[i] : i \in 1..Len(q)}

\* the column of df named c, as a sequence of cells
Column(df, c) == [i \in 1..Len(df.rows) |-> df.rows[i][c]]

\* the digits d without leading zeros ("0" when all are zeros)
StripLeadingZeros(d) == Sub(d, Min2(FirstNotIn(d, 1, {"0"}), Len(d)), Len(d))

\* the digits d without trailing zeros
StripTrailingZeros(d) ==
    IF \A i \in 1..Len(d) : At(d, i) = "0" THEN ""
    ELSE Sub(d, 1, CHOOSE k \in 1..Len(d) :
                       At(d, k) # "0" /\ \A j \in (k + 1)..Len(d) : At(d, j) = "0")

AllDigits(d) == d # "" /\ \A i \in 1..Len(d) : IsDigit(At(d, i))

Unsigned(t) == IF t # "" /\ At(t, 1) \in {"+", "-"} THEN Drop(t, 1) ELSE t

\* text that pandas reads as an integer: [+-]digits
IsIntText(t) == AllDigits(Unsigned(t))

\* text that pandas reads as a decimal number: [+-]digits.digits, one side may be empty
IsDecimalText(t) ==
    With(Split(Unsigned(t), "."), LAMBDA p :
        /\ Len(p) = 2
        /\ p[1] \o p[2] # ""
        /\ \A i \in 1..Len(p[1]) : IsDigit(At(p[1], i))
        /\ \A i \in 1..Len(p[2]) : IsDigit(At(p[2], i)))

IsZeroDigits(d) == \A i \in 1..Len(d) : At(d, i) = "0"

\* str() of the int64 that the integer text t denotes
IntStr(t) ==
    With(StripLeadingZeros(Unsigned(t)), LAMBDA d :
        (IF At(t, 1) = "-" /\ ~IsZeroDigits(d) THEN "-" ELSE "") \o d)

\* the form d.ddde+XX that str() gives a float of 1e16 and more or below 1e-4,
\* for the significant digits sig (at most 15 of them) and the exponent e
Scientific(sig, sign, e) ==
    At(sig, 1) \o (IF Len(sig) > 1 THEN "." \o Drop(sig, 1) ELSE "")
    \o "e" \o sign \o (IF e < 10 THEN "0" ELSE "") \o ToString(e)

\* str() of the float64 that the integer or decimal text t denotes
FloatStr(t) ==
    With(IF IsIntText(t) THEN <<Unsigned(t), "">> ELSE Split(Unsigned(t), "."), LAMBDA p :
    With(StripLeadingZeros(IF p[1] = "" THEN "0" ELSE p[1]), LAMBDA ip :
    With(StripTrailingZeros(p[2]), LAMBDA fp :
        (IF At(t, 1) = "-" THEN "-" ELSE "")
        \o (IF Len(ip) >= 17
            THEN Scientific(StripTrailingZeros(ip \o fp), "+", Len(ip) - 1)
            ELSE IF ip = "0" /\ FirstNotIn(fp, 1, {"0"}) >= 5 /\ fp # ""
            THEN Scientific(Drop(fp, FirstNotIn(fp, 1, {"0"}) - 1), "-", FirstNotIn(fp, 1, {"0"}))
            ELSE ip \o "." \o (IF fp = "" THEN "0" ELSE fp)))))

(***************************************************************************)
(* json.loads, for JSON without string escapes and without exponents       *)
(***************************************************************************)
JVal(type, text, ks, vs) == [t |-> type, s |-> text, keys |-> ks, vals |-> vs]

JNull == JVal("null", "", <<>>, <<>>)

JFail == [ok |-> FALSE, v |-> JNull, i |-> 0]

JOk(val, next) == [ok |-> TRUE, v |-> val, i |-> next]

SkipWs(s, i) == FirstNotIn(s, i, Spaces)

\* the first index from i on that holds no digit
DigitsEnd(s, i) == FirstNotIn(s, i, DigitChars)

JString(s, i) ==
    With(FirstIn(s, i + 1, {"\""}), LAMBDA j :
        IF j > Len(s) THEN JFail ELSE JOk(JVal("str", Sub(s, i + 1, j - 1), <<>>, <<>>), j + 1))

JNumber(s, i) ==
    With(IF At(s, i) = "-" THEN i + 1 ELSE i, LAMBDA a :
    With(DigitsEnd(s, a), LAMBDA b :
    With(IF At(s, b) = "." THEN DigitsEnd(s, b + 1) ELSE b, LAMBDA c :
        IF b = a \/ (At(s, b) = "." /\ c = b + 1) \/ (b - a > 1 /\ At(s, a) = "0") THEN JFail
        ELSE IF c = b THEN JOk(JVal("int", Sub(s, i, b - 1), <<>>, <<>>), b)
        ELSE JOk(JVal("float", Sub(s, i, c - 1), <<>>, <<>>), c))))

JWord(s, i, w, val) == IF Sub(s, i, i + Len(w) - 1) = w THEN JOk(val, i + Len(w)) ELSE JFail

RECURSIVE JValue(_, _)
RECURSIVE JMembers(_, _, _, _)
RECURSIVE JElements(_, _, _)

\* the members of an object from i on (after "{" or ","), ks and vs read so far
JMembers(s, i, ks, vs) ==
    With(SkipWs(s, i), LAMBDA a :
    With(IF At(s, a) = "\"" THEN JString(s, a) ELSE JFail, LAMBDA k :
    With(IF k.ok THEN SkipWs(s, k.i) ELSE 0, LAMBDA b :
    With(IF k.ok /\ At(s, b) = ":" THEN JValue(s, b + 1) ELSE JFail, LAMBDA v :
    With(IF v.ok THEN SkipWs(s, v.i) ELSE 0, LAMBDA c :
        IF ~v.ok THEN JFail
        ELSE IF At(s, c) = "," THEN JMembers(s, c + 1, Append(ks, k.v.s), Append(vs, v.v))
        ELSE IF At(s, c) = "}" THEN JOk(JVal("obj", "", Append(ks, k.v.s), Append(vs, v.v)), c + 1)
        ELSE JFail)))))

\* the elements of an array from i on (after "[" or ","), vs read so far
JElements(s, i, vs) ==
    With(JValue(s, i), LAMBDA v :
    With(IF v.ok THEN SkipWs(s, v.i) ELSE 0, LAMBDA c :
        IF ~v.ok THEN JFail
        ELSE IF At(s, c) = "," THEN JElements(s, c + 1, Append(vs, v.v))
        ELSE IF At(s, c) = "]" THEN JOk(JVal("arr", "", <<>>, Append(vs, v.v)), c + 1)
        ELSE JFail))

JValue(s, i) ==
    With(SkipWs(s, i), LAMBDA j :
    With(At(s, j), LAMBDA c :
    With(SkipWs(s, j + 1), LAMBDA k :
        CASE c = "\"" -> JString(s, j)
          [] c = "{" -> IF At(s, k) = "}"
                        THEN JOk(JVal("obj", "", <<>>, <<>>), k + 1)
                        ELSE JMembers(s, j + 1, <<>>, <<>>)
          [] c = "[" -> IF At(s, k) = "]"
                        THEN JOk(JVal("arr", "", <<>>, <<>>), k + 1)
                        ELSE JElements(s, j + 1, <<>>)
          [] c = "-" \/ IsDigit(c) -> JNumber(s, j)
          [] c = "n" -> JWord(s, j, "null", JNull)
          [] c = "t" -> JWord(s, j, "true", JVal("bool", "True", <<>>, <<>>))
          [] c = "f" -> JWord(s, j, "false", JVal("bool", "False", <<>>, <<>>))
          [] OTHER -> JFail)))

\* json.loads(text): [ok |-> FALSE] stands for the exception it raises
json_loads(text) ==
    With(JValue(text, 1), LAMBDA r :
        IF r.ok /\ SkipWs(text, r.i) = Len(text) + 1 THEN r ELSE JFail)

(***************************************************************************)
(* pd.DataFrame(records) for the records json.loads returns                *)
(***************************************************************************)
RECURSIVE Dedup(_)
\* the distinct elements of a sequence, in order of first appearance
Dedup(q) ==
    IF q = <<>> THEN <<>>
    ELSE LET r == Dedup(SubSeq(q, 1, Len(q) - 1))
         IN  IF q[Len(q)] \in SeqToSet(r) THEN r ELSE Append(r, q[Len(q)])

RECURSIVE Concat(_)
Concat(qs) == IF qs = <<>> THEN <<>> ELSE Head(qs) \o Concat(Tail(qs))

JMissing == JVal("missing", "", <<>>, <<>>)

\* dict lookup: the last value given for key k, JMissing when the key is absent
JGet(obj, k) ==
    IF \E i \in 1..Len(obj.keys) : obj.keys[i] = k
    THEN obj.vals[CHOOSE i \in 1..Len(obj.keys) :
                      obj.keys[i] = k /\ \A j \in (i + 1)..Len(obj.keys) : obj.keys[j] # k]
    ELSE JMissing

\* the cell of an object-dtype column holding the Python value j
ObjectCell(j) ==
    CASE j.t = "str" -> Cell("s", j.s)
      [] j.t = "int" -> Cell("i", IntStr(j.s))
      [] j.t = "float" -> Cell("f", FloatStr(j.s))
      [] j.t = "bool" -> Cell("b", j.s)
      [] j.t = "null" -> Cell("none", "None")
      [] j.t = "missing" -> NaN
      [] OTHER -> Cell("o", "{...}")

\* the cells of one column, after pandas' dtype inference over the Python values
InferJsonColumn(js) ==
    LET types == {js[i].t : i \in 1..Len(js)}
    IN  IF types = {"int"}
        THEN [i \in 1..Len(js) |-> Cell("i", IntStr(js[i].s))]
        ELSE IF types \subseteq {"int", "float", "null", "missing"} /\ types \cap {"int", "float"} # {}
        THEN [i \in 1..Len(js) |->
                 IF js[i].t \in {"int", "float"} THEN Cell("f", FloatStr(js[i].s)) ELSE NaN]
        ELSE [i \in 1..Len(js) |-> ObjectCell(js[i])]

\* pd.DataFrame(list): [ok |-> FALSE] stands for the exception pandas raises
FrameFromRecords(items) ==
    IF items = <<>> THEN [ok |-> TRUE, df |-> EmptyFrame]
    ELSE IF \A i \in 1..Len(items) : items[i].t = "obj"
    THEN With(Dedup(Concat([i \in 1..Len(items) |-> items[i].keys])), LAMBDA cols :
         With([c \in SeqToSet(cols) |->
                  InferJsonColumn([i \in 1..Len(items) |-> JGet(items[i], c)])], LAMBDA cells :
             [ok |-> TRUE,
              df |-> [cols |-> cols,
                      rows |-> [i \in 1..Len(items) |-> [c \in SeqToSet(cols) |-> cells[c][i]]]]]))
    ELSE IF items[1].t \notin {"obj", "arr"}
    THEN With(InferJsonColumn(items), LAMBDA cells :
             [ok |-> TRUE,
              df |-> [cols |-> <<"0">>, rows |-> [i \in 1..Len(items) |-> [c \in {"0"} |-> cells[i]]]]])
    ELSE [ok |-> FALSE, df |-> EmptyFrame]

(***************************************************************************)
(* pd.read_csv(buf, engine="python"): csv.reader, then pandas' header,     *)
(* blank-line, padding and dtype rules                                     *)
(***************************************************************************)
RECURSIVE QuotedBody(_, _)
\* csv.reader inside a quoted field whose text starts at j: the text up to the
\* closing quote ("" is one quote), and the index after that quote (Len(s) + 2
\* when the text ends inside the quotes)
QuotedBody(s, j) ==
    With(FirstIn(s, j, {"\""}), LAMBDA p :
        IF p > Len(s) THEN [text |-> Sub(s, j, Len(s)), next |-> Len(s) + 2]
        ELSE IF At(s, p + 1) = "\""
        THEN With(QuotedBody(s, p + 2), LAMBDA rest :
                 [text |-> Sub(s, j, p - 1) \o "\"" \o rest.text, next |-> rest.next])
        ELSE [text |-> Sub(s, j, p - 1), next |-> p + 1])

\* csv.reader (excel dialect, not strict) reading one field that starts at i:
\* its text and the index of the delimiter that ends it (a comma, a line break,
\* or Len(s) + 1 at the end of the text)
CsvField(s, i) ==
    IF At(s, i) = "\""
    THEN With(QuotedBody(s, i + 1), LAMBDA q :
         With(FirstIn(s, q.next, {",", "\n"}), LAMBDA e :
             [text |-> q.text \o Sub(s, q.next, e - 1), end |-> e]))
    ELSE With(FirstIn(s, i, {",", "\n"}), LAMBDA e :
             [text |-> Sub(s, i, e - 1), end |-> e])

RECURSIVE CsvRecord(_, _, _)
\* the record whose next field starts at i (row: its fields read so far), and
\* the index after the record
CsvRecord(s, i, row) ==
    With(CsvField(s, i), LAMBDA f :
        IF At(s, f.end) = "," THEN CsvRecord(s, f.end + 1, Append(row, f.text))
        ELSE [row |-> Append(row, f.text), next |-> f.end + 1])

RECURSIVE CsvScan(_, _, _)
\* the records of s from index i on (rows: those read so far)
CsvScan(s, i, rows) ==
    IF i > Len(s) THEN rows
    ELSE IF At(s, i) = "\n" THEN CsvScan(s, i + 1, Append(rows, <<>>))
    ELSE With(CsvRecord(s, i, <<>>), LAMBDA r :
             CsvScan(s, r.next, Append(rows, r.row)))

CsvRecords(text) == CsvScan(text, 1, <<>>)

\* pandas drops a record that is empty or one blank field (skip_blank_lines)
IsBlankRecord(r) == Len(r) = 0 \/ (Len(r) = 1 /\ Strip(r[1]) = "")

\* pandas' default na_values
STR_NA_VALUES ==
    {"", "#N/A", "#N/A N/A", "#NA", "-1.#IND", "-1.#QNAN", "-NaN", "-nan", "1.#IND",
     "1.#QNAN", "<NA>", "N/A", "NA", "NULL", "NaN", "None", "n/a", "nan", "null"}

\* the cells of one column, after pandas' dtype inference over the texts read
InferCsvColumn(ts) ==
    With({i \in 1..Len(ts) : ts[i] \notin STR_NA_VALUES}, LAMBDA present :
        IF present = {} THEN [i \in 1..Len(ts) |-> NaN]
        ELSE IF (\A i \in present : IsIntText(ts[i])) /\ present = 1..Len(ts)
        THEN [i \in 1..Len(ts) |-> Cell("i", IntStr(ts[i]))]
        ELSE IF \A i \in present : IsIntText(ts[i]) \/ IsDecimalText(ts[i])
        THEN [i \in 1..Len(ts) |-> IF i \in present THEN Cell("f", FloatStr(ts[i])) ELSE NaN]
        ELSE [i \in 1..Len(ts) |-> IF i \in present THEN Cell("s", ts[i]) ELSE NaN])

\* the header's names as pandas keeps them: an empty name becomes "Unnamed: k",
\* a repeated name gets ".1", ".2", ...
HeaderNames(fields) ==
    With([i \in 1..Len(fields) |->
             IF fields[i] = "" THEN "Unnamed: " \o ToString(i - 1) ELSE fields[i]], LAMBDA base :
    With([i \in 1..Len(fields) |-> Cardinality({j \in 1..(i - 1) : base[j] = base[i]})],
         LAMBDA before :
        [i \in 1..Len(fields) |->
            IF before[i] = 0 THEN base[i] ELSE base[i] \o "." \o ToString(before[i])]))

\* pd.read_csv(io.StringIO(text), engine="python"), header = TRUE for the default
\* header row, FALSE for header=None; [ok |-> FALSE] stands for the exception raised
\* (no columns to parse, or a record longer than the header allows)
read_csv(text, header) ==
    With(SelectSeq(CsvRecords(text), LAMBDA r : ~IsBlankRecord(r)), LAMBDA recs :
    With(IF recs = <<>> THEN <<>>
         ELSE IF header THEN HeaderNames(recs[1])
         ELSE [i \in 1..Len(recs[1]) |-> ToString(i - 1)], LAMBDA names :
    With(IF header /\ recs # <<>> THEN Tail(recs) ELSE recs, LAMBDA data :
    With(Len(names), LAMBDA n :
    \* a first record longer than the header makes its leading fields the index
    With(IF data # <<>> /\ Len(data[1]) > n THEN Len(data[1]) - n ELSE 0, LAMBDA idx :
    With([j \in 1..n |->
             InferCsvColumn([r \in 1..Len(data) |->
                 IF idx + j <= Len(data[r]) THEN data[r][idx + j] ELSE ""])], LAMBDA cells :
        IF recs = <<>> \/ \E r \in 1..Len(data) : Len(data[r]) > n + idx
        THEN [ok |-> FALSE, df |-> EmptyFrame]
        ELSE [ok |-> TRUE,
              df |-> [cols |-> names,
                      rows |-> [r \in 1..Len(data) |->
                                   [c \in SeqToSet(names) |->
                                       cells[CHOOSE j \in 1..n : names[j] = c][r]]]]]))))))

(***************************************************************************)
(* Format detection and raw parsing                                        *)
(***************************************************************************)
detect_format(text) ==
    With(Strip(text), LAMBDA s :
    With(SplitLines(s), LAMBDA lines :
    With(SubSeq(lines, 1, Min2(10, Len(lines))), LAMBDA first10 :
        IF s = "" THEN "empty"
        ELSE IF StartsWith(s, "{") \/ StartsWith(s, "[") THEN "json"
        ELSE IF Len(lines) >= 2
                /\ Cardinality({i \in 1..Len(first10) : StartsWith(Strip(first10[i]), "{")}) >= 2
        THEN "jsonl"
        ELSE "csv_or_text")))

\* what parse_dataset_text and parse_jsonl return; raised stands for an exception
\* that leaves the function
Parsed(frame, ws, format) == [df |-> frame, warnings |-> ws, fmt |-> format, raised |-> FALSE]

ParseRaised == [df |-> EmptyFrame, warnings |-> <<>>, fmt |-> "unknown", raised |-> TRUE]

parse_jsonl(text) ==
    With(SplitLines(text), LAMBDA lines :
    With([i \in 1..Len(lines) |-> Strip(lines[i])], LAMBDA stripped :
    \* None for a blank line, else what json.loads makes of the line
    With([i \in 1..Len(lines) |->
             IF stripped[i] = "" THEN None ELSE Some(json_loads(stripped[i]))], LAMBDA read :
    With(SelectSeq([i \in 1..Len(lines) |-> i], LAMBDA i : read[i] # None /\ read[i][1].ok),
         LAMBDA good :
    With(SelectSeq([i \in 1..Len(lines) |-> i], LAMBDA i : read[i] # None /\ ~read[i][1].ok),
         LAMBDA bad :
    With(FrameFromRecords([k \in 1..Len(good) |-> read[good[k]][1].v]), LAMBDA frame :
        IF frame.ok
        THEN Parsed(frame.df,
                    [k \in 1..Len(bad) |-> "JSONL line " \o ToString(bad[k]) \o " parse failed"],
                    "jsonl")
        ELSE ParseRaised))))))

\* the CSV / text branch of parse_dataset_text
ParseCsvBranch(text, warnings) ==
    With(read_csv(text, TRUE), LAMBDA r :
        IF r.ok THEN Parsed(r.df, warnings, "csv")
        ELSE Parsed(EmptyFrame, warnings \o <<"CSV parse failed", "Unable to parse input">>,
                    "unknown"))

\* the json branch of parse_dataset_text: [ok |-> FALSE] when json.loads or
\* pd.DataFrame raises
ParseJsonBranch(text) ==
    With(json_loads(text), LAMBDA r :
    With(IF r.ok /\ r.v.t = "obj" THEN JGet(r.v, "data") ELSE JMissing, LAMBDA data :
    With(IF data.t = "arr" THEN data ELSE r.v, LAMBDA obj :
        IF r.ok /\ obj.t \in {"obj", "arr"}
        THEN FrameFromRecords(IF obj.t = "obj" THEN <<obj>> ELSE obj.vals)
        ELSE [ok |-> FALSE, df |-> EmptyFrame])))

parse_dataset_text(raw) ==
    With(normalize_smart_quotes(Strip(raw)), LAMBDA text :
    With(detect_format(text), LAMBDA fmt :
    With(IF fmt = "json" THEN ParseJsonBranch(text) ELSE [ok |-> FALSE, df |-> EmptyFrame],
         LAMBDA json :
        IF fmt = "empty" THEN Parsed(EmptyFrame, <<"Empty input">>, fmt)
        ELSE IF fmt = "json" /\ json.ok THEN Parsed(json.df, <<>>, fmt)
        ELSE IF fmt = "jsonl" THEN parse_jsonl(text)
        ELSE ParseCsvBranch(text, IF fmt = "json" THEN <<"JSON parse failed; will try CSV">>
                                  ELSE <<>>))))

\* df.columns = names, position by position
RenameColumns(df, names) ==
    [cols |-> names,
     rows |-> [r \in 1..Len(df.rows) |->
                  [c \in SeqToSet(names) |->
                      df.rows[r][df.cols[CHOOSE j \in 1..Len(names) : names[j] = c]]]]]

\* headerless parsing that does not look for a canonical name in the first line
HeaderlessIgnoringNames(text) ==
    With(SelectSeq(SplitLines(text), LAMBDA ln : Strip(ln) # ""), LAMBDA lines :
        IF Len(lines) < 2 THEN None
        ELSE With(read_csv(normalize_smart_quotes(text), FALSE), LAMBDA r :
             IF r.ok /\ Len(r.df.cols) = Len(REQUIRED_COLUMNS)
             THEN Some(RenameColumns(r.df, REQUIRED_COLUMNS))
             ELSE None))

\* Optional[DataFrame]: None, or Some(df) with the canonical headers assigned
headerless_csv_to_required(text) ==
    With(SelectSeq(SplitLines(text), LAMBDA ln : Strip(ln) # ""), LAMBDA lines :
        IF Len(lines) < 2 THEN None
        ELSE With(Lower(normalize_smart_quotes(lines[1])), LAMBDA first :
             IF \E i \in 1..Len(REQUIRED_COLUMNS) : Contains(first, Lower(REQUIRED_COLUMNS[i]))
             THEN None
             ELSE With(read_csv(normalize_smart_quotes(text), FALSE), LAMBDA r :
                  IF r.ok /\ Len(r.df.cols) = Len(REQUIRED_COLUMNS)
                  THEN Some(RenameColumns(r.df, REQUIRED_COLUMNS))
                  ELSE None)))

(***************************************************************************)
(* standardize_dataset                                                     *)
(***************************************************************************)
CanonSet == SeqToSet(REQUIRED_COLUMNS)

\* a mapping {canonical column: source column}; "" stands for no entry
NoMapping == [c \in CanonSet |-> ""]

\* out[c] = vals: replaces the column c, or appends it
SetColumn(t, c, vals) ==
    [cols |-> IF c \in SeqToSet(t.cols) THEN t.cols ELSE Append(t.cols, c),
     rows |-> [r \in 1..Len(t.rows) |->
                  [x \in DOMAIN t.rows[r] \cup {c} |-> IF x = c THEN vals[r] ELSE t.rows[r][x]]]]

RECURSIVE SetColumns(_, _, _)
\* out[c] = src[c] for each c of cs, in order
SetColumns(t, cs, src) ==
    IF cs = <<>> THEN t
    ELSE SetColumns(SetColumn(t, Head(cs), Column(src, Head(cs))), Tail(cs), src)

\* dff.columns = [str(c).strip() for c in dff.columns]
\* (two names that strip to the same text are not modelled: the later one is kept)
StripColumns(df) ==
    With([j \in 1..Len(df.cols) |-> Strip(df.cols[j])], LAMBDA names :
        [cols |-> names,
         rows |-> [r \in 1..Len(df.rows) |->
                      [c \in SeqToSet(names) |->
                          df.rows[r][df.cols[CHOOSE j \in 1..Len(names) :
                              names[j] = c /\ \A k \in (j + 1)..Len(names) : names[k] # c]]]]])

\* lower_cols = {c.lower().strip(): c for c in dff.columns}
LowerCols(cols) ==
    With([j \in 1..Len(cols) |-> Strip(Lower(cols[j]))], LAMBDA keys :
        [k \in SeqToSet(keys) |->
            cols[CHOOSE j \in 1..Len(cols) :
                     keys[j] = k /\ \A i \in (j + 1)..Len(cols) : keys[i] # k]])

\* auto_map: exact match, else the first alias of canon (in ALIASES order) that
\* names a column, else the case-insensitive match
AutoMap(cols) ==
    With(LowerCols(cols), LAMBDA lower_cols :
        [canon \in CanonSet |->
            With({a \in 1..Len(ALIASES) :
                     ALIASES[a][2] = canon /\ ALIASES[a][1] \in DOMAIN lower_cols}, LAMBDA hits :
                IF canon \in SeqToSet(cols) THEN canon
                ELSE IF hits # {}
                THEN lower_cols[ALIASES[CHOOSE a \in hits : \A b \in hits : a <= b][1]]
                ELSE IF Lower(canon) \in DOMAIN lower_cols THEN lower_cols[Lower(canon)]
                ELSE "")])

\* mapping = dict(auto_map), overridden by the user's entries that name a column
ResolveMapping(cols, user_mapping) ==
    With(AutoMap(cols), LAMBDA auto_map :
        [canon \in CanonSet |->
            IF user_mapping[canon] # "" /\ user_mapping[canon] \in SeqToSet(cols)
            THEN user_mapping[canon]
            ELSE auto_map[canon]])

\* float(s) for s made of digits, "." and "-": Some(str of the float) or None
PyFloat(s) == IF IsIntText(s) \/ IsDecimalText(s) THEN Some(FloatStr(s)) ELSE None

\* _to_float
to_float(raw) ==
    With(Strip(raw), LAMBDA s :
        IF s = "" THEN None
        ELSE PyFloat(FilterChars(RemoveChars(s, {","}), DigitChars \cup {".", "-"})))

\* x > 0 for the float whose str is v
IsPositive(v) == At(v, 1) # "-" /\ v # "0.0"

DigitVal(c) == CHOOSE d \in 0..9 : At("0123456789", d + 1) = c

RECURSIVE ToInt(_)
\* int(d) for digits d
ToInt(d) == IF d = "" THEN 0 ELSE 10 * ToInt(Sub(d, 1, Len(d) - 1)) + DigitVal(At(d, Len(d)))

IsLeap(y) == (y % 4 = 0 /\ y % 100 # 0) \/ y % 400 = 0

DaysInMonth(y, m) ==
    IF m = 2 THEN (IF IsLeap(y) THEN 29 ELSE 28)
    ELSE IF m \in {4, 6, 9, 11} THEN 30 ELSE 31

\* a calendar date that a pandas Timestamp can hold
ValidDate(y, m, d) ==
    /\ m \in 1..12
    /\ d >= 1 /\ d <= DaysInMonth(y, m)
    /\ y * 10000 + m * 100 + d >= 16770922
    /\ y * 10000 + m * 100 + d <= 22620411

Pad(n, w) == LET t == ToString(n) IN Sub("0000", 1, w - Len(t)) \o t

DateCell(y, m, d) ==
    IF ValidDate(y, m, d) THEN Cell("dt", Pad(y, 4) \o "-" \o Pad(m, 2) \o "-" \o Pad(d, 2))
    ELSE Cell("nat", "NaT")

\* pd.to_datetime(s, errors="coerce") for the shapes Y-M-D, Y/M/D, M/D/Y and
\* D/M/Y (month first when that is a date); any other text is taken as NaT
GenericDate(s) ==
    With(Split(s, IF Contains(s, "-") THEN "-" ELSE "/"), LAMBDA p :
    With([i \in 1..Len(p) |-> IF AllDigits(p[i]) THEN ToInt(p[i]) ELSE 0 - 1], LAMBDA v :
    With([i \in 1..Len(p) |-> AllDigits(p[i]) /\ Len(p[i]) <= 2], LAMBDA short :
    With([i \in 1..Len(p) |-> AllDigits(p[i]) /\ Len(p[i]) = 4], LAMBDA year :
        IF Len(p) # 3 THEN Cell("nat", "NaT")
        ELSE IF year[1] /\ short[2] /\ short[3] THEN DateCell(v[1], v[2], v[3])
        ELSE IF short[1] /\ short[2] /\ year[3]
        THEN IF ValidDate(v[3], v[1], v[2])
             THEN DateCell(v[3], v[1], v[2])
             ELSE DateCell(v[3], v[2], v[1])
        ELSE Cell("nat", "NaT")))))

\* _parse_date: the cell of _Deliverdate_dt ("nat" for None and NaT)
parse_date(x) ==
    With(FilterChars(Strip(x), DigitChars \cup {"-", "/"}), LAMBDA s :
        IF Strip(x) = "" THEN Cell("nat", "NaT")
        ELSE IF AllDigits(s) /\ Len(s) = 8
        THEN DateCell(ToInt(Sub(s, 1, 4)), ToInt(Sub(s, 5, 6)), ToInt(Sub(s, 7, 8)))
        ELSE GenericDate(s))

\* (flags + "|" + tag).strip("|")
AddFlag(flags, tag) == IF flags = "" THEN tag ELSE flags \o "|" \o tag

\* _quality_flags of a row, the tags added in the order the code adds them
QualityFlags(bad_number, bad_date, duplicate) ==
    With(IF bad_number THEN "bad_number" ELSE "", LAMBDA f1 :
    With(IF bad_date THEN AddFlag(f1, "bad_date") ELSE f1, LAMBDA f2 :
        IF duplicate THEN AddFlag(f2, "duplicate") ELSE f2))

META_COLUMNS == <<"_row_id", "_source", "_import_ts", "_quality_flags">>

STRING_COLUMNS ==
    <<"SupplierID", "Deliverdate", "CustomerID", "LicenseNo", "Category", "UDID",
      "DeviceNAME", "LotNO", "SerNo", "Model">>

ReportKeys ==
    {"source", "ts", "mapping_used", "warnings", "coercions", "missing_required",
     "confidence", "dropped_rows"}

\* the dict report; keys is the set of keys it holds, a field whose key is absent
\* holds its empty value; a coercion count of 0 stands for an absent entry
Report(source_label, ts, mapping, ws, co, missing, conf, ks) ==
    [source |-> source_label, ts |-> ts, mapping_used |-> mapping, warnings |-> ws,
     coercions |-> co, missing_required |-> missing, confidence |-> conf,
     dropped_rows |-> 0, detected_format |-> "", parse_warnings |-> <<>>, keys |-> ks]

NoCoercions == [Number_invalid_to_0 |-> 0, Deliverdate_unparseable |-> 0, duplicates_flagged |-> 0]

\* an early return that hands back a table without columns
StandardizeEmptyNoColumns(source_label, ts) ==
    [out |-> EmptyFrame,
     report |-> Report(source_label, ts, NoMapping, <<"Empty dataset">>, NoCoercions,
                       MIN_IMPORT_COLUMNS, 0, ReportKeys)]

\* an early return that reports missing fields as the path for rows does
\* (Number is never listed)
StandardizeEmptyComputed(source_label, ts) ==
    [out |-> [cols |-> REQUIRED_COLUMNS \o META_COLUMNS, rows |-> <<>>],
     report |-> Report(source_label, ts, NoMapping, <<"Empty dataset">>, NoCoercions,
                       SelectSeq(MIN_IMPORT_COLUMNS, LAMBDA c : c # "Number"), 0, ReportKeys)]

\* the early return for df is None or df.empty
StandardizeEmpty(source_label, ts) ==
    [out |-> [cols |-> REQUIRED_COLUMNS \o META_COLUMNS, rows |-> <<>>],
     report |-> Report(source_label, ts, NoMapping, <<"Empty dataset">>, NoCoercions,
                       MIN_IMPORT_COLUMNS, 0, ReportKeys)]

\* out = pd.DataFrame(); out[canon] = dff[src] or "" for each canonical column.
\* A scalar assigned while out has no rows yet makes an empty column, which the
\* first column copied from dff then fills with NaN (pandas reindexes it).
CanonicalFrame(dff, mapping) ==
    With([k \in 1..Len(REQUIRED_COLUMNS) |->
             mapping[REQUIRED_COLUMNS[k]] # ""
             /\ mapping[REQUIRED_COLUMNS[k]] \in SeqToSet(dff.cols)], LAMBDA mapped :
        [cols |-> REQUIRED_COLUMNS,
         rows |-> [r \in 1..Len(dff.rows) |->
                      [c \in CanonSet |->
                          With(CHOOSE k \in 1..Len(REQUIRED_COLUMNS) : REQUIRED_COLUMNS[k] = c,
                               LAMBDA k :
                              IF mapped[k] THEN dff.rows[r][mapping[c]]
                              ELSE IF \E j \in 1..(k - 1) : mapped[j] THEN Cell("s", "")
                              ELSE NaN)]]])

\* extras = [c for c in dff.columns if c not in set(mapping.values())]
Extras(dff, mapping) == SelectSeq(dff.cols, LAMBDA c : c \notin (Range(mapping) \ {""}))

\* the subset REQUIRED_COLUMNS of a row, as out.duplicated compares it
DupKey(row) ==
    [c \in CanonSet |-> IF c = "Number" /\ row[c].v = "-0.0" THEN "0.0" ELSE row[c].v]

\* missing_required decided on the first row alone
MissingRequiredFirstRow(out) ==
    SelectSeq(MIN_IMPORT_COLUMNS,
              LAMBDA c : \/ c \notin SeqToSet(out.cols)
                         \/ /\ c # "Number"
                            /\ Strip(out.rows[1][c].v) = "")

\* missing_required, from the standardized table
MissingRequired(out) ==
    SelectSeq(MIN_IMPORT_COLUMNS,
              LAMBDA c : \/ c \notin SeqToSet(out.cols)
                         \/ /\ c # "Number"
                            /\ \A r \in 1..Len(out.rows) : Strip(out.rows[r][c].v) = "")

\* a score whose mapping share is not divided by the number of canonical columns
ConfidenceUnscaled(mapped_count, required_ok, date_ok, num_ok, n) ==
    60 * mapped_count
    + (IF required_ok THEN 20 ELSE 0)
    + (IF n > 0 THEN (10 * date_ok) \div n ELSE 0)
    + (IF n > 0 THEN (10 * num_ok) \div n ELSE 0)

\* the confidence score
Confidence(mapped_count, required_ok, date_ok, num_ok, n) ==
    Min2(100, (60 * mapped_count) \div Max2(1, Len(REQUIRED_COLUMNS))
              + (IF required_ok THEN 20 ELSE 0)
              + (IF n > 0 THEN (10 * date_ok) \div n ELSE 0)
              + (IF n > 0 THEN (10 * num_ok) \div n ELSE 0))

\* Add derived/meta fields
AddMeta(t, source_label, ts) ==
    SetColumn(SetColumn(SetColumn(SetColumn(t,
        "_row_id", [r \in 1..Len(t.rows) |-> Cell("s", "uuid" \o ToString(r))]),
        "_source", [r \in 1..Len(t.rows) |-> Cell("s", source_label)]),
        "_import_ts", [r \in 1..Len(t.rows) |-> Cell("s", ts)]),
        "_quality_flags", [r \in 1..Len(t.rows) |-> Cell("s", "")])

\* Clean strings
CleanStrings(t) ==
    [cols |-> t.cols,
     rows |-> [r \in 1..Len(t.rows) |->
                  [c \in DOMAIN t.rows[r] |->
                      IF c \in SeqToSet(STRING_COLUMNS)
                      THEN Cell("s", Strip(t.rows[r][c].v))
                      ELSE t.rows[r][c]]]]

\* coerced.isna(): the rows whose Number is not a float
BadNumber(t) == {r \in 1..Len(t.rows) : to_float(t.rows[r]["Number"].v) = None}

\* out["Number"] = coerced.fillna(0.0).astype(float)
CoerceNumber(t) ==
    SetColumn(t, "Number",
              [r \in 1..Len(t.rows) |->
                  Cell("f", IF r \in BadNumber(t) THEN "0.0"
                            ELSE to_float(t.rows[r]["Number"].v)[1])])

\* out["_Deliverdate_dt"] = out["Deliverdate"].map(_parse_date)
ParseDates(t) ==
    SetColumn(t, "_Deliverdate_dt",
              [r \in 1..Len(t.rows) |-> parse_date(t.rows[r]["Deliverdate"].v)])

\* out["_Deliverdate_dt"].isna()
BadDate(t) == {r \in 1..Len(t.rows) : t.rows[r]["_Deliverdate_dt"].k = "nat"}

\* duplicates found by comparing the parsed date in place of the Deliverdate text
DuplicatedByDate(t) ==
    {r \in 1..Len(t.rows) :
        \E q \in 1..(r - 1) :
            /\ [DupKey(t.rows[q]) EXCEPT !["Deliverdate"] = ""]
                   = [DupKey(t.rows[r]) EXCEPT !["Deliverdate"] = ""]
            /\ t.rows[q]["_Deliverdate_dt"] = t.rows[r]["_Deliverdate_dt"]}

\* out.duplicated(subset=REQUIRED_COLUMNS, keep="first")
Duplicated(t) ==
    {r \in 1..Len(t.rows) : \E q \in 1..(r - 1) : DupKey(t.rows[q]) = DupKey(t.rows[r])}

\* the three updates of _quality_flags
FlagRows(t, bad_num) ==
    SetColumn(t, "_quality_flags",
              [r \in 1..Len(t.rows) |->
                  Cell("s", QualityFlags(r \in bad_num, r \in BadDate(t), r \in Duplicated(t)))])

\* the report and the returned pair, from the finished table
StdReport(dff, mapping, out, bad_num, source_label, ts) ==
    [out |-> out,
     report |-> Report(source_label, ts, mapping, <<>>,
                       [Number_invalid_to_0 |-> Cardinality(bad_num),
                        Deliverdate_unparseable |-> Cardinality(BadDate(out)),
                        duplicates_flagged |-> Cardinality(Duplicated(out))],
                       MissingRequired(out),
                       Confidence(Cardinality({c \in CanonSet :
                                      mapping[c] # "" /\ mapping[c] \in SeqToSet(dff.cols)}),
                                  MissingRequired(out) = <<>>,
                                  Len(out.rows) - Cardinality(BadDate(out)),
                                  Cardinality({r \in 1..Len(out.rows) :
                                      IsPositive(out.rows[r]["Number"].v)}),
                                  Len(out.rows)),
                       ReportKeys)]

\* from the cleaned table on: Number, Deliverdate, the flags, the report
StdCoerce(dff, mapping, t, source_label, ts) ==
    StdReport(dff, mapping, FlagRows(ParseDates(CoerceNumber(t)), BadNumber(t)), BadNumber(t),
              source_label, ts)

\* from the resolved mapping on: canonical frame, extras, meta fields, cleaning
StdFrame(dff, mapping, source_label, ts) ==
    StdCoerce(dff, mapping,
              CleanStrings(AddMeta(SetColumns(CanonicalFrame(dff, mapping),
                                              Extras(dff, mapping), dff),
                                   source_label, ts)),
              source_label, ts)

\* from the stripped table on
StdMapped(dff, user_mapping, source_label, ts) ==
    StdFrame(dff, ResolveMapping(dff.cols, user_mapping), source_label, ts)

\* the path of standardize_dataset for a table with rows and columns
StandardizeRows(df, source_label, user_mapping, ts) ==
    StdMapped(StripColumns(df), user_mapping, source_label, ts)

\* standardize_dataset(df, source_label, user_mapping), called at time ts;
\* df is None or Some(table), user_mapping a mapping (NoMapping for None and {})
standardize_dataset(df, source_label, user_mapping, ts) ==
    IF df = None \/ IsEmptyFrame(df[1])
    THEN StandardizeEmpty(source_label, ts)
    ELSE StandardizeRows(df[1], source_label, user_mapping, ts)

\* standardize_dataset raises: two columns of the table bear one name once the
\* names are stripped, and out[c] = dff[c] is handed a table of two columns
StandardizeRaises(df) ==
    /\ df # None
    /\ ~IsEmptyFrame(df[1])
    /\ \E i, j \in 1..Len(df[1].cols) : i # j /\ Strip(df[1].cols[i]) = Strip(df[1].cols[j])

(***************************************************************************)
(* load_default_dataset                                                    *)
(***************************************************************************)
\* the default dataset file as the load finds it
NoFile == [exists |-> FALSE, readable |-> FALSE, content |-> ""]

UnreadableFile == [exists |-> TRUE, readable |-> FALSE, content |-> ""]

File(text) == [exists |-> TRUE, readable |-> TRUE, content |-> text]

Loaded(res, ws) == [std |-> res.out, warnings |-> ws, report |-> res.report]

\* load_default_dataset(path) at time ts, file being what is at path
load_default_dataset(file, ts) ==
    With(Strip(file.content), LAMBDA content :
    With(IF file.exists /\ file.readable THEN headerless_csv_to_required(content) ELSE None,
         LAMBDA df_hdrless :
    With(IF file.exists /\ file.readable /\ df_hdrless = None
         THEN parse_dataset_text(content) ELSE ParseRaised, LAMBDA p :
    With((df_hdrless = None /\ p.raised) \/ StandardizeRaises(Some(p.df)), LAMBDA failed :
    With(standardize_dataset(
             IF ~failed /\ df_hdrless # None THEN df_hdrless
             ELSE IF ~failed THEN Some(p.df)
             ELSE Some([cols |-> REQUIRED_COLUMNS, rows |-> <<>>]),
             "default", NoMapping, ts), LAMBDA res :
        IF ~file.exists THEN Loaded(res, <<"Default dataset not found">>)
        ELSE IF failed THEN Loaded(res, <<"Failed to load default dataset">>)
        ELSE IF df_hdrless # None THEN Loaded(res, <<"Default file parsed as headerless CSV.">>)
        ELSE Loaded([res EXCEPT !.report.detected_format = p.fmt,
                                !.report.keys = @ \cup {"detected_format"}],
                    p.warnings))))))

(***************************************************************************)
(* Natural numbers of any size: the bits, least significant first, with no *)
(* leading zero; <<>> is 0                                                 *)
(***************************************************************************)
\* Body(v), with v worked out before Body is
Eval(v, Body(_)) == CHOOSE y \in {Body(x) : x \in {v}} : TRUE

BitAt(a, i) == IF i >= 1 /\ i <= Len(a) THEN a[i] ELSE 0

\* without the zero bits at the top
Trim(a) ==
    IF \A i \in 1..Len(a) : a[i] = 0 THEN <<>>
    ELSE SubSeq(a, 1, CHOOSE i \in 1..Len(a) : a[i] = 1 /\ \A j \in (i + 1)..Len(a) : a[j] = 0)

RECURSIVE NatOfInt(_)
NatOfInt(n) == IF n = 0 THEN <<>> ELSE <<n % 2>> \o NatOfInt(n \div 2)

RECURSIVE AddFrom(_, _, _, _, _)
\* the bits lo..hi of a + b and the carry out of them, with carry c into bit lo
AddFrom(a, b, lo, hi, c) ==
    IF lo > hi THEN <<<<>>, c>>
    ELSE IF lo = hi
    THEN <<<<(BitAt(a, lo) + BitAt(b, lo) + c) % 2>>, (BitAt(a, lo) + BitAt(b, lo) + c) \div 2>>
    ELSE Eval(AddFrom(a, b, lo, (lo + hi) \div 2, c), LAMBDA low :
         Eval(AddFrom(a, b, (lo + hi) \div 2 + 1, hi, low[2]), LAMBDA high :
             <<low[1] \o high[1], high[2]>>))

NatAdd(a, b) ==
    With(AddFrom(a, b, 1, IF Len(a) > Len(b) THEN Len(a) ELSE Len(b), 0), LAMBDA sum :
        IF sum[2] = 1 THEN sum[1] \o <<1>> ELSE sum[1])

RECURSIVE SubFrom(_, _, _, _, _)
\* the bits lo..hi of a - b and the borrow out of them, with borrow c from bit lo
SubFrom(a, b, lo, hi, c) ==
    IF lo > hi THEN <<<<>>, c>>
    ELSE IF lo = hi
    THEN <<<<(BitAt(a, lo) - BitAt(b, lo) - c + 2) % 2>>,
           IF BitAt(a, lo) - BitAt(b, lo) - c < 0 THEN 1 ELSE 0>>
    ELSE Eval(SubFrom(a, b, lo, (lo + hi) \div 2, c), LAMBDA low :
         Eval(SubFrom(a, b, (lo + hi) \div 2 + 1, hi, low[2]), LAMBDA high :
             <<low[1] \o high[1], high[2]>>))

\* a - b, for a >= b
NatSub(a, b) == Trim(SubFrom(a, b, 1, Len(a), 0)[1])

\* a < b for numbers of the same length: the highest bit in which they differ decides
LessFrom(a, b) ==
    /\ a # b
    /\ a[CHOOSE i \in 1..Len(a) :
             a[i] # b[i] /\ SubSeq(a, i + 1, Len(a)) = SubSeq(b, i + 1, Len(b))] = 0

NatLess(a, b) == IF Len(a) # Len(b) THEN Len(a) < Len(b) ELSE LessFrom(a, b)

\* a * 2^k
ShiftLeft(a, k) == IF a = <<>> THEN <<>> ELSE [i \in 1..k |-> 0] \o a

\* a div 2^k
ShiftRight(a, k) == IF k >= Len(a) THEN <<>> ELSE SubSeq(a, k + 1, Len(a))

RECURSIVE MulFrom(_, _, _, _)
\* b times the bits lo..hi of a
MulFrom(a, b, lo, hi) ==
    IF lo > hi THEN <<>>
    ELSE IF lo = hi THEN (IF a[lo] = 1 THEN ShiftLeft(b, lo - 1) ELSE <<>>)
    ELSE NatAdd(MulFrom(a, b, lo, (lo + hi) \div 2), MulFrom(a, b, (lo + hi) \div 2 + 1, hi))

NatMul(a, b) == MulFrom(a, b, 1, Len(a))

RECURSIVE DivFrom(_, _, _, _, _)
\* long division of the bits hi, hi-1, .. lo of a by b, r the remainder so far:
\* the pair of the quotient's bits lo..hi and the remainder
DivFrom(a, b, hi, lo, r) ==
    IF hi < lo THEN <<<<>>, r>>
    ELSE IF hi = lo
    THEN (IF NatLess(Trim(<<a[hi]>> \o r), b)
          THEN <<<<0>>, Trim(<<a[hi]>> \o r)>>
          ELSE <<<<1>>, NatSub(<<a[hi]>> \o r, b)>>)
    ELSE Eval(DivFrom(a, b, hi, (lo + hi) \div 2 + 1, r), LAMBDA upper :
         Eval(DivFrom(a, b, (lo + hi) \div 2, lo, upper[2]), LAMBDA lower :
             <<lower[1] \o upper[1], lower[2]>>))

\* <<a div b, a mod b>>, for b > 0
NatDivMod(a, b) == With(DivFrom(a, b, Len(a), 1, <<>>), LAMBDA d : <<Trim(d[1]), d[2]>>)

\* the number of zero bits below the lowest 1 of a, for a > 0
LowZeros(a) == (CHOOSE i \in 1..Len(a) : a[i] = 1 /\ \A j \in 1..(i - 1) : a[j] = 0) - 1

RECURSIVE HexBits(_)
\* the bits of the hexadecimal numeral h, four for each digit
HexBits(h) ==
    IF h = "" THEN <<>>
    ELSE [i \in 1..4 |->
             ((CHOOSE v \in 0..15 : At("0123456789abcdef", v + 1) = At(h, Len(h)))
                 \div (2 ^ (i - 1))) % 2]
         \o HexBits(Sub(h, 1, Len(h) - 1))

\* int(h, 16)
NatOfHex(h) == Trim(HexBits(h))

(***************************************************************************)
(* Python floats (IEEE 754 binary64, round to nearest, ties to even): a    *)
(* finite float is (-1)^s * m * 2^e with m odd or 0; None is a value of a  *)
(* list too                                                                *)
(***************************************************************************)
PyNone == [k |-> "none", s |-> 0, m |-> <<>>, e |-> 0]

FNaN == [k |-> "nan", s |-> 0, m |-> <<>>, e |-> 0]

FInf(sign) == [k |-> "inf", s |-> sign, m |-> <<>>, e |-> 0]

\* the finite float (-1)^sign * m * 2^e, for m of at most 53 bits
Fin(sign, m, e) ==
    IF m = <<>> THEN [k |-> "fin", s |-> 0, m |-> <<>>, e |-> 0]
    ELSE [k |-> "fin", s |-> sign, m |-> ShiftRight(m, LowZeros(m)), e |-> e + LowZeros(m)]

FZero == Fin(0, <<>>, 0)

\* float(n) for a small int n >= 0
IntF(n) == Fin(0, NatOfInt(n), 0)

\* m without its lowest d bits, rounded to nearest, ties to even
RoundedNat(m, d) ==
    IF BitAt(m, d) = 1 /\ ((\E i \in 1..(d - 1) : BitAt(m, i) = 1) \/ BitAt(m, d + 1) = 1)
    THEN NatAdd(ShiftRight(m, d), <<1>>)
    ELSE ShiftRight(m, d)

\* inf once the value is 2^1024 or more
Overflowed(sign, m, e) == IF Len(m) + e > 1024 THEN FInf(sign) ELSE Fin(sign, m, e)

\* the float nearest to (-1)^sign * m * 2^e: 53 bits are kept, fewer below 2^-1022
RoundFloat(sign, m, e) ==
    IF m = <<>> THEN FZero
    ELSE IF Len(m) - 53 <= 0 /\ -1074 - e <= 0 THEN Overflowed(sign, m, e)
    ELSE IF Len(m) - 53 >= -1074 - e
    THEN Overflowed(sign, RoundedNat(m, Len(m) - 53), e + Len(m) - 53)
    ELSE Overflowed(sign, RoundedNat(m, -1074 - e), -1074)

\* the position above the top bit of a finite float that is not 0
Top(a) == Len(a.m) + a.e

\* a + b for mantissas at the same exponent e
AddAligned(sa, ma, sb, mb, e) ==
    IF sa = sb THEN RoundFloat(sa, NatAdd(ma, mb), e)
    ELSE IF NatLess(ma, mb) THEN RoundFloat(sb, NatSub(mb, ma), e)
    ELSE RoundFloat(sa, NatSub(ma, mb), e)

\* a + b for finite a and b, neither 0, the top bit of a not below that of b; a
\* b more than 60 bits below a only decides the rounding
AddOrdered(a, b) ==
    IF Top(a) - Top(b) > 60
    THEN AddAligned(a.s, ShiftLeft(a.m, 56 - Len(a.m)), b.s, <<1>>, Top(a) - 56)
    ELSE IF a.e <= b.e
    THEN AddAligned(a.s, a.m, b.s, ShiftLeft(b.m, b.e - a.e), a.e)
    ELSE AddAligned(a.s, ShiftLeft(a.m, a.e - b.e), b.s, b.m, b.e)

\* a + b
FAdd(a, b) ==
    IF a.k = "nan" \/ b.k = "nan" THEN FNaN
    ELSE IF a.k = "inf" THEN (IF b.k = "inf" /\ b.s # a.s THEN FNaN ELSE a)
    ELSE IF b.k = "inf" THEN b
    ELSE IF a.m = <<>> THEN b
    ELSE IF b.m = <<>> THEN a
    ELSE IF Top(a) >= Top(b) THEN AddOrdered(a, b)
    ELSE AddOrdered(b, a)

\* -a
FNeg(a) == IF a.k = "nan" \/ (a.k = "fin" /\ a.m = <<>>) THEN a ELSE [a EXCEPT !.s = 1 - a.s]

\* a - b
FSub(a, b) == FAdd(a, FNeg(b))

\* a * b
FMul(a, b) ==
    IF a.k = "nan" \/ b.k = "nan" THEN FNaN
    ELSE IF a.k = "inf" \/ b.k = "inf"
    THEN (IF (a.k = "fin" /\ a.m = <<>>) \/ (b.k = "fin" /\ b.m = <<>>)
          THEN FNaN ELSE FInf((a.s + b.s) % 2))
    ELSE RoundFloat((a.s + b.s) % 2, NatMul(a.m, b.m), a.e + b.e)

\* a / b for finite a and b, neither 0: the quotient to at least 56 bits, k the
\* shift that gives it that many, and a last bit that says if anything remains
DivShifted(a, b, k) ==
    With(NatDivMod(ShiftLeft(a.m, k), b.m), LAMBDA d :
        RoundFloat((a.s + b.s) % 2,
                   <<IF d[2] = <<>> THEN 0 ELSE 1>> \o d[1],
                   a.e - b.e - k - 1))

\* a / b, for b that is not 0
FDiv(a, b) ==
    IF a.k = "nan" \/ b.k = "nan" THEN FNaN
    ELSE IF a.k = "inf" THEN (IF b.k = "inf" THEN FNaN ELSE FInf((a.s + b.s) % 2))
    ELSE IF b.k = "inf" \/ a.m = <<>> THEN FZero
    ELSE DivShifted(a, b, IF 56 + Len(b.m) - Len(a.m) > 0 THEN 56 + Len(b.m) - Len(a.m) ELSE 0)

\* a < b in absolute value, for finite a and b
MagLess(a, b) ==
    IF b.m = <<>> THEN FALSE
    ELSE IF a.m = <<>> THEN TRUE
    ELSE IF Top(a) # Top(b) THEN Top(a) < Top(b)
    ELSE IF a.e <= b.e THEN NatLess(a.m, ShiftLeft(b.m, b.e - a.e))
    ELSE NatLess(ShiftLeft(a.m, a.e - b.e), b.m)

\* a < b; False when either is nan
FLess(a, b) ==
    IF a.k = "nan" \/ b.k = "nan" THEN FALSE
    ELSE IF a.k = "inf" THEN a.s = 1 /\ ~(b.k = "inf" /\ b.s = 1)
    ELSE IF b.k = "inf" THEN b.s = 0
    ELSE IF a.s # b.s THEN a.s = 1
    ELSE IF a.s = 0 THEN MagLess(a, b)
    ELSE MagLess(b, a)

\* a == b; False when either is nan
FEq(a, b) == a.k # "nan" /\ b.k # "nan" /\ a = b

(***************************************************************************)
(* gini_coefficient                                                        *)
(***************************************************************************)
RECURSIVE InsertSorted(_, _)
\* q with v put before the first value greater than it
InsertSorted(q, v) ==
    IF q = <<>> THEN <<v>>
    ELSE IF FLess(v, q[1]) THEN <<v>> \o q
    ELSE <<q[1]>> \o InsertSorted(Tail(q), v)

RECURSIVE Sorted(_)
\* sorted(q), for floats none of which is nan
Sorted(q) == IF q = <<>> THEN <<>> ELSE InsertSorted(Sorted(SubSeq(q, 1, Len(q) - 1)), q[Len(q)])

RECURSIVE PlainSum(_, _, _)
\* sum(vals) up to Python 3.11: the values i, i+1, .. added to acc one by one
PlainSum(vals, i, acc) ==
    IF i > Len(vals) THEN acc ELSE PlainSum(vals, i + 1, FAdd(acc, vals[i]))

\* abs(a)
FAbs(a) == IF a.k = "nan" THEN a ELSE [a EXCEPT !.s = 0]

RECURSIVE CompensatedSum(_, _, _, _)
\* sum(vals) from Python 3.12 on (Neumaier): acc the running sum, c the running
\* compensation, which is added at the end unless it is 0, inf or nan
CompensatedSum(vals, i, acc, c) ==
    IF i > Len(vals)
    THEN (IF c.k = "fin" /\ c.m # <<>> THEN FAdd(acc, c) ELSE acc)
    ELSE CompensatedSum(vals, i + 1, FAdd(acc, vals[i]),
             IF ~FLess(FAbs(acc), FAbs(vals[i]))
             THEN FAdd(c, FAdd(FSub(acc, FAdd(acc, vals[i])), vals[i]))
             ELSE FAdd(c, FAdd(FSub(vals[i], FAdd(acc, vals[i])), acc)))

RECURSIVE WeightedSum(_, _, _)
\* cum after the loop: cum += i * v for the values i, i+1, ..
WeightedSum(vals, i, cum) ==
    IF i > Len(vals) THEN cum
    ELSE WeightedSum(vals, i + 1, FAdd(cum, FMul(IntF(i), vals[i])))

\* float(max(0.0, min(1.0, g))): min keeps 1.0 unless g < 1.0, max keeps 0.0
\* unless the other is greater
Clamped(g) ==
    With(IF FLess(g, IntF(1)) THEN g ELSE IntF(1), LAMBDA least :
        IF FLess(FZero, least) THEN least ELSE FZero)

\* the value for the sorted values vals, their sum s not 0
GiniOfSum(vals, s) ==
    Clamped(FSub(FDiv(FMul(IntF(2), WeightedSum(vals, 1, FZero)), FMul(IntF(Len(vals)), s)),
                 FDiv(IntF(Len(vals) + 1), IntF(Len(vals)))))

\* the value for the sorted values vals
GiniOfSorted(vals, compensated) ==
    With(IF compensated THEN CompensatedSum(vals, 1, FZero, FZero) ELSE PlainSum(vals, 1, FZero),
         LAMBDA s :
        IF FEq(s, FZero) THEN FZero ELSE GiniOfSum(vals, s))

\* gini_coefficient(values); compensated says which sum() the interpreter has
gini_coefficient(values, compensated) ==
    With(SelectSeq(values, LAMBDA v : v # PyNone /\ ~FLess(v, FZero) /\ v.k # "nan"), LAMBDA vals :
        IF vals = <<>> THEN FZero ELSE GiniOfSorted(Sorted(vals), compensated))

(***************************************************************************)
(* The session: st.session_state and the widgets of dataset_manager        *)
(***************************************************************************)
VARIABLES
    ss,             \* st.session_state: the dataset keys, each None or Some(value)
    source,         \* the value of the data-source radio
    page,           \* the controls the last run left on the page
    last,           \* what the last script run did (history)
    default_ran,    \* the default-dataset pipeline has run in this session (history)
    probe           \* one call of standardize_dataset: its arguments and result

vars == <<ss, source, page, last, default_ran, probe>>

\* dt.datetime.now().isoformat(): the model gives every run the same reading
Now == "2024-05-01T09:00:00"

\* Bounds of the model
MaxProbeRows == 2

MaxProbeCols == 2

MaxAgainRows == 2

MaxParseLines == 3

MaxGiniLen == 3

MaxDefaultLines == 2

MaxDetectEnds == 2

MaxDetectPad == 10

MaxConcRows == 3

\* the raw table a Preview stages: the headerless reading if it applies, else the parser's
PreviewParse(text) ==
    With(headerless_csv_to_required(text), LAMBDA df_hdrless :
        IF df_hdrless # None
        THEN Parsed(df_hdrless[1],
                    <<"Parsed as headerless CSV; assigned canonical headers.">>,
                    "csv(headerless)")
        ELSE parse_dataset_text(text))

\* the texts a user pastes or uploads: nothing, a table with its header, rows
\* without a header, a table whose columns need the mapping form, JSON
\* lines that pd.DataFrame rejects, and a table with two columns of one name
HeaderedText == "SupplierID,Deliverdate,CustomerID,Model,Number\nS1,20240101,C1,M1,10\nS1,20240101,C1,M1,10"

HeaderlessText == "S1,20240101,C1,L1,K,U1,D,T1,R1,M1,10\nS2,2024-02-30,C2,L2,K,U2,D,T2,R2,M2,-3"

UnmappedText == "SupplierID,d,c,m,qty\nS1,20240101,C1,M1,5"

RaisingText == "x\n{\"vendor\":\"S1\"}\n{\"vendor\":\"S2\"}\n5"

DuplicateText == "a, a\n1,2"

JsonText == "[{\"SupplierID\":\"S9\",\"Deliverdate\":\"2024/03/01\",\"CustomerID\":\"C9\",\"Model\":\"M9\",\"Number\":7}]"

Texts == {"", HeaderedText, HeaderlessText, UnmappedText, RaisingText, DuplicateText}

\* the default dataset file at the time of a load
DefaultFiles == {NoFile, UnreadableFile, File(JsonText)}

\* the value in a table of <<key, value>> pairs
Lookup(table, key) == (CHOOSE e \in table : e[1] = key)[2]

\* what Preview parses each text into, computed once for each text
PreviewParsed == {<<text, PreviewParse(text)>> : text \in Texts}

\* what the default load returns for each file, computed once for each
DefaultLoaded == {<<file, load_default_dataset(file, Now)>> : file \in DefaultFiles}

\* the name of an uploaded file
UploadName == "data.csv"

\* what the first run of dataset_manager stores when the session holds no dataset
InitialActive ==
    [cols |-> REQUIRED_COLUMNS \o META_COLUMNS \o <<"_Deliverdate_dt">>, rows |-> <<>>]

InitialReport ==
    Report("none", "", NoMapping, <<>>, NoCoercions, <<>>, 0, {"source", "confidence"})

\* the dict {}
EmptyReport == Report("", "", NoMapping, <<>>, NoCoercions, <<>>, 0, {})

\* the history of the last run: op the button clicked ("default" and "select" for a
\* run without a click), parsed whether the run read raw text, fired whether
\* the handler of the button did its work, loaded whether the default load ran
NoRun == [op |-> "none", parsed |-> FALSE, fired |-> FALSE, loaded |-> FALSE]

Ran(name, didParse, didFire, didLoad) ==
    [op |-> name, parsed |-> didParse, fired |-> didFire, loaded |-> didLoad]

\* import_enabled: the Import button is drawn and not disabled; cancel: the
\* Cancel button is drawn; mapping: the mapping form and its Apply button are drawn
NoControls == [import_enabled |-> FALSE, cancel |-> FALSE, mapping |-> FALSE]

NoProbe == [df |-> None, user_mapping |-> NoMapping, result |-> None]

FreshSession ==
    [dataset_df_active |-> None,
     dataset_parse_warnings_active |-> None,
     dataset_standardize_report_active |-> None,
     default_loaded_active |-> None,
     dataset_stage_raw |-> None,
     dataset_stage_std |-> None,
     dataset_stage_report |-> None,
     dataset_stage_warnings |-> None,
     dataset_stage_detected_fmt |-> None,
     dataset_stage_user_mapping |-> None]

SessionInit ==
    /\ ss = FreshSession
    /\ source = "use_default"
    /\ page = NoControls
    /\ last = NoRun
    /\ default_ran = FALSE

Init == SessionInit /\ probe = NoProbe

\* "Ensure active dataset exists"
EnsureActive(s) ==
    IF s.dataset_df_active # None THEN s
    ELSE [s EXCEPT !.dataset_df_active = Some(InitialActive),
                   !.dataset_parse_warnings_active = Some(<<>>),
                   !.dataset_standardize_report_active = Some(InitialReport)]

\* can_import that asks for a staged report only
CanImportAnyReport(s) == s.dataset_stage_report # None

\* can_import, as the Import button's disabled flag is computed
CanImport(s) ==
    /\ s.dataset_stage_report # None
    /\ Len(s.dataset_stage_report[1].missing_required) = 0

\* a "Clear staged" that pops the raw table and the warnings only
ClearStagedRawOnly(s) ==
    [s EXCEPT !.dataset_stage_raw = None,
              !.dataset_stage_warnings = None]

\* the "Clear staged" pops of the default load
ClearStaged(s) ==
    [s EXCEPT !.dataset_stage_raw = None,
              !.dataset_stage_std = None,
              !.dataset_stage_report = None,
              !.dataset_stage_warnings = None]

\* Cancel that forgets to pop the user mapping
CancelKeepingMapping(s) ==
    [s EXCEPT !.dataset_stage_raw = None,
              !.dataset_stage_std = None,
              !.dataset_stage_report = None,
              !.dataset_stage_warnings = None,
              !.dataset_stage_detected_fmt = None]

\* the pops of Cancel
CancelStaged(s) ==
    [s EXCEPT !.dataset_stage_raw = None,
              !.dataset_stage_std = None,
              !.dataset_stage_report = None,
              !.dataset_stage_warnings = None,
              !.dataset_stage_detected_fmt = None,
              !.dataset_stage_user_mapping = None]

\* the start of a run whose source is paste or upload
EnterStaging(s) == [EnsureActive(s) EXCEPT !.default_loaded_active = Some(FALSE)]

\* st.session_state.get("dataset_stage_user_mapping", {})
StageUserMapping(s) ==
    IF s.dataset_stage_user_mapping = None THEN NoMapping ELSE s.dataset_stage_user_mapping[1]

\* the condition under which the mapping form is drawn
MappingShown(s) ==
    /\ s.dataset_stage_report # None
    /\ s.dataset_stage_raw # None
    /\ ~IsEmptyFrame(s.dataset_stage_raw[1])
    /\ Len(s.dataset_stage_report[1].missing_required) > 0

\* the columns of a run that reaches its end: col2 draws Import from the state
\* it finds (atImport), the mapping form is drawn from the state after col3
Controls(atImport, atEnd) ==
    [import_enabled |-> CanImport(atImport), cancel |-> TRUE, mapping |-> MappingShown(atEnd)]

\* the value each selectbox of the mapping form shows before the user edits it
Preselect(s) ==
    With(StageUserMapping(s), LAMBDA um :
    With({""} \cup SeqToSet(s.dataset_stage_raw[1].cols), LAMBDA options :
        [c \in CanonSet |->
            With(IF um[c] # "" THEN um[c] ELSE s.dataset_stage_report[1].mapping_used[c],
                 LAMBDA preselect : IF preselect \in options THEN preselect ELSE "")]))

\* the user picks the k-th column for the k-th minimum import field
Positional(s) ==
    With(s.dataset_stage_raw[1].cols, LAMBDA cols :
        [c \in CanonSet |->
            IF \E k \in 1..Len(MIN_IMPORT_COLUMNS) : MIN_IMPORT_COLUMNS[k] = c /\ k <= Len(cols)
            THEN cols[CHOOSE k \in 1..Len(MIN_IMPORT_COLUMNS) : MIN_IMPORT_COLUMNS[k] = c]
            ELSE ""])

\* what the user does with the mapping form before clicking Apply
MappingChoices == {"preselect", "positional", "blank"}

\* the values of the selectboxes when Apply is clicked
MappingInputs(s, choice) ==
    CASE choice = "preselect" -> Preselect(s)
      [] choice = "positional" -> Positional(s)
      [] OTHER -> NoMapping

\* rep["detected_format"] = ...; rep["parse_warnings"] = ...
Annotate(rep, fmt, ws) ==
    [rep EXCEPT !.detected_format = fmt, !.parse_warnings = ws,
                !.keys = @ \cup {"detected_format", "parse_warnings"}]

\* Preview that also writes the standardized table into the active key
PreviewRunIntoActive(s, filename, text, ts) ==
    With(Lookup(PreviewParsed, text), LAMBDA p :
        IF p.raised THEN None
        ELSE With(standardize_dataset(Some(p.df), filename, StageUserMapping(s), ts), LAMBDA res :
             Some([EnterStaging(s) EXCEPT
                      !.dataset_stage_raw = Some(p.df),
                      !.dataset_stage_warnings = Some(p.warnings),
                      !.dataset_stage_detected_fmt = Some(p.fmt),
                      !.dataset_stage_std = Some(res.out),
                      !.dataset_df_active = Some(res.out),
                      !.dataset_stage_report = Some(Annotate(res.report, p.fmt, p.warnings))])))

\* the Preview handler runs to its end on the text
PreviewCompletes(text) ==
    With(Lookup(PreviewParsed, text), LAMBDA p : ~p.raised /\ ~StandardizeRaises(Some(p.df)))

\* the session state a click on Preview leaves, None when the parser raises
\* (the run then ends where the exception is raised); when standardize_dataset
\* raises, the raw table, the warnings and the format are staged already
PreviewRun(s, filename, text, ts) ==
    With(Lookup(PreviewParsed, text), LAMBDA p :
        IF p.raised THEN None
        ELSE IF StandardizeRaises(Some(p.df))
        THEN Some([EnterStaging(s) EXCEPT
                      !.dataset_stage_raw = Some(p.df),
                      !.dataset_stage_warnings = Some(p.warnings),
                      !.dataset_stage_detected_fmt = Some(p.fmt)])
        ELSE With(standardize_dataset(Some(p.df), filename, StageUserMapping(s), ts), LAMBDA res :
             Some([EnterStaging(s) EXCEPT
                      !.dataset_stage_raw = Some(p.df),
                      !.dataset_stage_warnings = Some(p.warnings),
                      !.dataset_stage_detected_fmt = Some(p.fmt),
                      !.dataset_stage_std = Some(res.out),
                      !.dataset_stage_report = Some(Annotate(res.report, p.fmt, p.warnings))])))

\* Apply that stores the new mapping but standardizes with the one stored before
ApplyRunOldMapping(s, mapping_inputs, ts) ==
    With(s.dataset_stage_report[1], LAMBDA rep :
    With(standardize_dataset(s.dataset_stage_raw, rep.source, StageUserMapping(s), ts), LAMBDA res :
        [EnterStaging(s) EXCEPT
            !.dataset_stage_user_mapping = Some(mapping_inputs),
            !.dataset_stage_std = Some(res.out),
            !.dataset_stage_report =
                Some(Annotate(res.report,
                              IF "detected_format" \in rep.keys THEN rep.detected_format
                              ELSE "unknown",
                              IF s.dataset_stage_warnings = None THEN <<>>
                              ELSE s.dataset_stage_warnings[1]))]))

\* the session state a click on Apply leaves, mapping_inputs being the selectbox
\* values; when standardize_dataset raises, the mapping alone has been stored
ApplyRun(s, mapping_inputs, ts) ==
    With(s.dataset_stage_report[1], LAMBDA rep :
    With(standardize_dataset(s.dataset_stage_raw, rep.source, mapping_inputs, ts), LAMBDA res :
        IF StandardizeRaises(s.dataset_stage_raw)
        THEN [EnterStaging(s) EXCEPT !.dataset_stage_user_mapping = Some(mapping_inputs)]
        ELSE
        [EnterStaging(s) EXCEPT
            !.dataset_stage_user_mapping = Some(mapping_inputs),
            !.dataset_stage_std = Some(res.out),
            !.dataset_stage_report =
                Some(Annotate(res.report,
                              IF "detected_format" \in rep.keys THEN rep.detected_format
                              ELSE "unknown",
                              IF s.dataset_stage_warnings = None THEN <<>>
                              ELSE s.dataset_stage_warnings[1]))]))

\* A default run that loads the default dataset whatever the flag says
RunDefaultAlways ==
    /\ source' = "use_default"
    /\ \E file \in DefaultFiles :
         \E l \in {Lookup(DefaultLoaded, file)} :
           /\ ss' = ClearStaged([EnsureActive(ss) EXCEPT
                       !.dataset_df_active = Some(l.std),
                       !.dataset_parse_warnings_active = Some(l.warnings),
                       !.dataset_standardize_report_active = Some(l.report),
                       !.default_loaded_active = Some(TRUE)])
           /\ last' = Ran("default", TRUE, FALSE, TRUE)
           /\ default_ran' = TRUE
    /\ page' = NoControls
    /\ UNCHANGED probe

\* A run with the radio on "use default": the first run of a session, a
\* re-selection of the default source, or a rerun while it is selected.
RunDefault ==
    /\ source' = "use_default"
    /\ IF EnsureActive(ss).default_loaded_active # Some(TRUE)
       THEN \E file \in DefaultFiles :
              \E l \in {Lookup(DefaultLoaded, file)} :
                /\ ss' = ClearStaged([EnsureActive(ss) EXCEPT
                            !.dataset_df_active = Some(l.std),
                            !.dataset_parse_warnings_active = Some(l.warnings),
                            !.dataset_standardize_report_active = Some(l.report),
                            !.default_loaded_active = Some(TRUE)])
                /\ last' = Ran("default", TRUE, FALSE, TRUE)
                /\ default_ran' = TRUE
       ELSE /\ ss' = EnsureActive(ss)
            /\ last' = Ran("default", FALSE, FALSE, FALSE)
            /\ UNCHANGED default_ran
    /\ page' = NoControls
    /\ UNCHANGED probe

\* A run with the radio on paste or upload and no button clicked.
RunStaging(src) ==
    /\ ss.dataset_df_active # None
    /\ src \in {"paste", "upload"}
    /\ source' = src
    /\ ss' = EnterStaging(ss)
    /\ page' = Controls(ss', ss')
    /\ last' = Ran("select", FALSE, FALSE, FALSE)
    /\ UNCHANGED <<default_ran, probe>>

\* The Preview button, with text in the text area or in the uploaded file.
Preview(text) ==
    /\ source # "use_default"
    /\ \E run \in {PreviewRun(ss, IF source = "paste" THEN "paste" ELSE UploadName, text,
                              Now)} :
         IF run = None
         THEN /\ ss' = EnterStaging(ss)
              /\ page' = NoControls
              /\ last' = Ran("preview", TRUE, FALSE, FALSE)
         ELSE /\ ss' = run[1]
              /\ page' = IF PreviewCompletes(text) THEN Controls(run[1], run[1]) ELSE NoControls
              /\ last' = Ran("preview", TRUE, PreviewCompletes(text), FALSE)
    /\ UNCHANGED <<source, default_ran, probe>>

\* Import that replaces the active table and warnings but keeps the active report
ImportKeepingReport ==
    /\ source # "use_default"
    /\ page.import_enabled
    /\ IF ss.dataset_stage_std # None
       THEN /\ ss' = [EnterStaging(ss) EXCEPT
                        !.dataset_df_active = ss.dataset_stage_std,
                        !.dataset_parse_warnings_active =
                            IF ss.dataset_stage_report = None THEN Some(<<>>)
                            ELSE Some(ss.dataset_stage_report[1].parse_warnings)]
            /\ last' = Ran("import", FALSE, TRUE, FALSE)
       ELSE /\ ss' = EnterStaging(ss)
            /\ last' = Ran("import", FALSE, FALSE, FALSE)
    /\ page' = Controls(ss', ss')
    /\ UNCHANGED <<source, default_ran, probe>>

\* The Import button, clicked where the page shows it enabled.
Import ==
    /\ source # "use_default"
    /\ page.import_enabled
    /\ IF ss.dataset_stage_std # None
       THEN /\ ss' = [EnterStaging(ss) EXCEPT
                        !.dataset_df_active = ss.dataset_stage_std,
                        !.dataset_parse_warnings_active =
                            IF ss.dataset_stage_report = None THEN Some(<<>>)
                            ELSE Some(ss.dataset_stage_report[1].parse_warnings),
                        !.dataset_standardize_report_active =
                            IF ss.dataset_stage_report = None THEN Some(EmptyReport)
                            ELSE ss.dataset_stage_report]
            /\ last' = Ran("import", FALSE, TRUE, FALSE)
       ELSE /\ ss' = EnterStaging(ss)
            /\ last' = Ran("import", FALSE, FALSE, FALSE)
    /\ page' = Controls(ss', ss')
    /\ UNCHANGED <<source, default_ran, probe>>

\* The Cancel button.
Cancel ==
    /\ source # "use_default"
    /\ page.cancel
    /\ ss' = CancelStaged(EnterStaging(ss))
    /\ page' = Controls(ss, ss')
    /\ last' = Ran("cancel", FALSE, TRUE, FALSE)
    /\ UNCHANGED <<source, default_ran, probe>>

\* The "Apply mapping + Re-standardize" button and the rerun it asks for.
ApplyMapping(choice) ==
    /\ source # "use_default"
    /\ page.mapping
    /\ MappingShown(ss)
    /\ ss' = ApplyRun(ss, MappingInputs(ss, choice), Now)
    /\ page' = IF StandardizeRaises(ss.dataset_stage_raw) THEN NoControls ELSE Controls(ss', ss')
    /\ last' = Ran("apply", FALSE, ~StandardizeRaises(ss.dataset_stage_raw), FALSE)
    /\ UNCHANGED <<source, default_ran, probe>>

Next ==
    \/ RunDefault
    \/ \E src \in {"paste", "upload"} : RunStaging(src)
    \/ \E text \in Texts : Preview(text)
    \/ Import
    \/ Cancel
    \/ \E choice \in MappingChoices : ApplyMapping(choice)

Spec == Init /\ [][Next]_vars

(***************************************************************************)
(* standardize_dataset on its own: one call on each table and mapping      *)
(***************************************************************************)
\* column names of the tables: canonical names, an alias, a padded name, an extra
ProbeNames == {"SupplierID", "Number", "qty", " Model ", "x"}

\* cell values of the tables
ProbeCells == {Cell("s", ""), Cell("s", "S1"), Cell("i", "-3"), NaN}

\* the sequences without repetition of at most n elements of S
RECURSIVE SeqsUpTo(_, _)
SeqsUpTo(S, n) ==
    IF n = 0 THEN {<<>>}
    ELSE SeqsUpTo(S, n - 1)
         \cup {Append(q, x) : q \in {p \in SeqsUpTo(S, n - 1) : Len(p) = n - 1}, x \in S}

\* the column lists of at most ncols names, no name twice
ProbeColumns(ncols) ==
    {q \in SeqsUpTo(ProbeNames, ncols) : \A i, j \in 1..Len(q) : i # j => q[i] # q[j]}

\* the tables with these columns and at most nrows rows
TablesOver(cols, nrows) ==
    {[cols |-> cols, rows |-> rows] :
        rows \in UNION {[1..n -> [SeqToSet(cols) -> ProbeCells]] : n \in 0..nrows}}

\* the argument df: None, or a table of at most nrows rows and ncols columns
ProbeTables(nrows, ncols) ==
    {None} \cup {Some(t) : t \in UNION {TablesOver(cols, nrows) : cols \in ProbeColumns(ncols)}}

\* Deliverdate values: one day in two spellings, and a text that is no date
ProbeDates == {Cell("s", "2024-01-05"), Cell("i", "20240105"), Cell("s", "soon")}

\* the tables of one column Deliverdate with 1 to nrows rows
DateTables(nrows) ==
    {Some([cols |-> <<"Deliverdate">>, rows |-> rows]) :
        rows \in UNION {[1..n -> [{"Deliverdate"} -> ProbeDates]] : n \in 1..nrows}}

\* the argument user_mapping: none, one that names a column and a name no table
\* has, and one that names a column by the padded name the table gives it
ProbeMappings ==
    {NoMapping,
     [c \in CanonSet |-> IF c = "Number" THEN "x"
                         ELSE IF c = "SupplierID" THEN "ghost" ELSE ""],
     [c \in CanonSet |-> IF c = "Deliverdate" THEN " Model " ELSE ""]}

StdInit ==
    /\ SessionInit
    /\ probe \in {[df |-> df, user_mapping |-> m, result |-> None] :
                     df \in ProbeTables(MaxProbeRows, MaxProbeCols) \cup DateTables(MaxProbeRows),
                     m \in ProbeMappings}

\* the call standardize_dataset(df, source_label="probe", user_mapping)
Standardize ==
    /\ probe.result = None
    /\ probe' = [probe EXCEPT
                    !.result = Some(standardize_dataset(probe.df, "probe", probe.user_mapping, Now))]
    /\ UNCHANGED <<ss, source, page, last, default_ran>>

StdNext == Standardize

StdSpec == StdInit /\ [][StdNext]_vars

(***************************************************************************)
(* Properties of the staging workflow (checked under Spec)                 *)
(***************************************************************************)
\* the Active Dataset: table, warnings and report
Active(s) ==
    <<s.dataset_df_active, s.dataset_parse_warnings_active, s.dataset_standardize_report_active>>

\* Idle: no staged data
Idle(s) ==
    s.dataset_stage_raw = None /\ s.dataset_stage_std = None /\ s.dataset_stage_report = None

\* C1: in every state, Import can fire only when a staged report exists and its
\* missing_required is empty; whenever nothing is staged or the staged report lists
\* a missing field, the Import control is disabled and a click on Import leaves the
\* Active Dataset as it was.
C1_ImportOnlyWhenComplete ==
    /\ [](~CanImport(ss) => ~page.import_enabled)
    /\ [][last'.op = "import" =>
            /\ last'.fired => CanImport(ss)
            /\ ~CanImport(ss) => Active(ss') = Active(ss)]_vars

\* C2: immediately after Import fires, the staged raw table, the staged
\* standardized table and the staged report are gone (the workflow is Idle).
C2_ImportClearsStaged == (last.op = "import" /\ last.fired) => Idle(ss)

\* C3: when Import fires, the Active Dataset becomes exactly the staged standardized
\* table, and the active warnings and report become the staged warnings and report.
C3_ImportReplacesActive ==
    [][(last'.op = "import" /\ last'.fired) =>
          /\ ss'.dataset_df_active = ss.dataset_stage_std
          /\ ss'.dataset_parse_warnings_active = ss.dataset_stage_warnings
          /\ ss'.dataset_parse_warnings_active = Some(ss.dataset_stage_report[1].parse_warnings)
          /\ ss'.dataset_standardize_report_active = ss.dataset_stage_report]_vars

\* an Import has just replaced a default dataset by a pasted table with rows
C3_Witness ==
    /\ last.op = "import" /\ last.fired
    /\ ss.dataset_df_active = ss.dataset_stage_std
    /\ Len(ss.dataset_df_active[1].rows) > 0
    /\ ss.dataset_standardize_report_active[1].source = "paste"

\* C4: Cancel, from any state, leaves no staged raw table, standardized table,
\* report, warnings, detected format or user mapping, and leaves the Active
\* Dataset, its warnings and its report as they were.
C4_CancelDiscardsStaged ==
    [][last'.op = "cancel" =>
          /\ Idle(ss')
          /\ ss'.dataset_stage_warnings = None
          /\ ss'.dataset_stage_detected_fmt = None
          /\ ss'.dataset_stage_user_mapping = None
          /\ Active(ss') = Active(ss)]_vars

\* a Cancel has just discarded a staged dataset that was ready for Import (the
\* Import button drawn before the pops still shows enabled) and nothing is staged
C4_Witness ==
    /\ last.op = "cancel"
    /\ page.import_enabled
    /\ Idle(ss)
    /\ ss.dataset_stage_user_mapping = None
    /\ ss.dataset_df_active # None

CarriedMapping(s) == IF Idle(s) THEN NoMapping ELSE StageUserMapping(s)

\* C6: a Preview standardizes the parsed table with the user mapping carried over
\* from the staged state it is fired in, and with no user mapping when it is fired
\* from Idle, however that Idle state was reached.
C6_PreviewMappingCarriedOrEmpty ==
    [][(last'.op = "preview" /\ last'.fired) =>
          ss'.dataset_stage_std =
              Some(standardize_dataset(ss'.dataset_stage_raw, ss'.dataset_stage_report[1].source,
                                       CarriedMapping(ss), Now).out)]_vars

C8_ActiveUnchangedOrReplaced ==
    [][/\ last'.op \in {"preview", "apply"} => Active(ss') = Active(ss)
       /\ \/ Active(ss') = Active(ss)
          \/ /\ last'.op = "import"
             /\ Active(ss') = <<ss.dataset_stage_std,
                                Some(ss.dataset_stage_report[1].parse_warnings),
                                ss.dataset_stage_report>>
          \/ /\ last'.op = "default"
             /\ \E file \in DefaultFiles :
                  Active(ss') = <<Some(Lookup(DefaultLoaded, file).std),
                                  Some(Lookup(DefaultLoaded, file).warnings),
                                  Some(Lookup(DefaultLoaded, file).report)>>]_vars

\* a Preview has just staged a table with rows while the Active Dataset is still
\* the default one
C8_Witness ==
    /\ last.op = "preview" /\ last.fired
    /\ Len(ss.dataset_stage_std[1].rows) > 0
    /\ ss.dataset_df_active # ss.dataset_stage_std
    /\ ss.dataset_standardize_report_active[1].source = "default"

(***************************************************************************)
(* Properties of standardize_dataset (checked under StdSpec)               *)
(***************************************************************************)
\* C9: for every input table (null, empty, or with any column names) and any user
\* mapping, the table standardize_dataset returns has all 11 canonical columns,
\* and each of its rows has a value for each of them.
C9_AllCanonicalColumns ==
    probe.result # None =>
        \A c \in {"SupplierID", "Deliverdate", "CustomerID", "LicenseNo", "Category", "UDID",
                  "DeviceNAME", "LotNO", "SerNo", "Model", "Number"} :
            /\ c \in SeqToSet(probe.result[1].out.cols)
            /\ \A r \in 1..Len(probe.result[1].out.rows) : c \in DOMAIN probe.result[1].out.rows[r]

\* a table with rows whose only column is no canonical column and no alias has
\* been standardized under a user mapping
C9_Witness ==
    /\ probe.result # None
    /\ probe.df # None
    /\ probe.df[1].cols = <<"x">>
    /\ Len(probe.df[1].rows) = MaxProbeRows
    /\ probe.user_mapping # NoMapping
    /\ Len(probe.result[1].out.rows) = MaxProbeRows

\* C10: for a null table and for a table without rows or without columns,
\* standardize_dataset returns a table with zero rows and a report whose
\* missing_required is [SupplierID, Deliverdate, CustomerID, Model, Number] and
\* whose confidence is 0.
C10_EmptyInput ==
    (/\ probe.result # None
     /\ \/ probe.df = None
        \/ Len(probe.df[1].rows) = 0
        \/ Len(probe.df[1].cols) = 0) =>
        /\ Len(probe.result[1].out.rows) = 0
        /\ probe.result[1].report.missing_required =
               <<"SupplierID", "Deliverdate", "CustomerID", "Model", "Number">>
        /\ probe.result[1].report.confidence = 0

\* a table that has columns but no rows has been standardized
C10_Witness ==
    /\ probe.result # None
    /\ probe.df # None
    /\ Len(probe.df[1].cols) = MaxProbeCols
    /\ Len(probe.df[1].rows) = 0
    /\ probe.result[1].report.confidence = 0

(***************************************************************************)
(* standardize_dataset called again on the table it returned               *)
(***************************************************************************)
\* the time of the second call
Later == "2024-05-01T09:05:00"

\* cell values of the tables standardized twice
AgainCells == {Cell("s", ""), Cell("s", "S1"), Cell("s", "2024-01-05"), Cell("s", "7"),
               Cell("s", "abc"), Cell("s", "0.00001")}

\* their column lists
AgainColumns == {<<"Number">>, <<"SupplierID", "Number">>, <<"Deliverdate", "qty">>}

\* the tables of 1 to nrows rows with these columns and cells
AgainTables(nrows) ==
    UNION {{Some([cols |-> cols, rows |-> rows]) :
               rows \in UNION {[1..n -> [SeqToSet(cols) -> AgainCells]] : n \in 1..nrows}} :
           cols \in AgainColumns}

AgainInit ==
    /\ SessionInit
    /\ probe \in {[df |-> df, user_mapping |-> NoMapping, result |-> None] :
                     df \in AgainTables(MaxAgainRows)}

\* standardize_dataset(out, source_label="probe"), out being the table returned
\* by the first call
Restandardize ==
    /\ probe.result # None
    /\ "_row_id" \notin SeqToSet(probe.df[1].cols)
    /\ probe' = [df |-> Some(probe.result[1].out),
                 user_mapping |-> NoMapping,
                 result |-> Some(standardize_dataset(Some(probe.result[1].out), "probe",
                                                     NoMapping, Later))]
    /\ UNCHANGED <<ss, source, page, last, default_ran>>

AgainNext == Standardize \/ Restandardize

AgainSpec == AgainInit /\ [][AgainNext]_vars

(***************************************************************************)
(* concentration_risk                                                      *)
(***************************************************************************)
RECURSIVE DigitsValue(_)
\* the number that the decimal digits d denote
DigitsValue(d) ==
    IF d = "" THEN 0
    ELSE 10 * DigitsValue(Sub(d, 1, Len(d) - 1))
         + (CHOOSE k \in 0..9 : ToString(k) = At(d, Len(d)))

\* the float whose str() is v, for a whole number v below 1e16 ("-3.0", "10.0")
FloatOfStr(v) ==
    With(IntF(DigitsValue(Split(Unsigned(v), ".")[1])), LAMBDA x :
        IF At(v, 1) = "-" THEN FNeg(x) ELSE x)

\* df["Number"] of the rows whose column key holds k, in the order of the rows
NumbersOf(df, key, k) ==
    With(SelectSeq([r \in 1..Len(df.rows) |-> r], LAMBDA r : df.rows[r][key].v = k), LAMBDA at :
        [i \in 1..Len(at) |-> FloatOfStr(df.rows[at[i]]["Number"].v)])

\* df["Number"].sum()
NumberSum(df) ==
    PlainSum([r \in 1..Len(df.rows) |-> FloatOfStr(df.rows[r]["Number"].v)], 1, FZero)

\* df.groupby(key)["Number"].sum() at the group k
GroupSum(df, key, k) == PlainSum(NumbersOf(df, key, k), 1, FZero)

\* the groups that sort_values(ascending=False) may put first: those of the
\* largest sum (the order among equal sums is left to the sort)
TopGroups(df, key) ==
    With({df.rows[r][key].v : r \in 1..Len(df.rows)}, LAMBDA groups :
        {k \in groups : \A j \in groups : ~FLess(GroupSum(df, key, k), GroupSum(df, key, j))})

NoConcentration ==
    [top_supplier |-> None, share |-> FZero, top_customer |-> None, customer_share |-> FZero]

\* what concentration_risk returns for a table with rows whose total is positive
Concentration(df, total) ==
    {[top_supplier |-> Some(s),
      share |-> FDiv(GroupSum(df, "SupplierID", s), total),
      top_customer |-> Some(c),
      customer_share |-> FDiv(GroupSum(df, "CustomerID", c), total)] :
        s \in TopGroups(df, "SupplierID"), c \in TopGroups(df, "CustomerID")}

\* the dicts concentration_risk(df) may return, df being None or Some(table)
concentration_risk(df) ==
    IF df = None \/ IsEmptyFrame(df[1]) \/ "Number" \notin SeqToSet(df[1].cols)
    THEN {NoConcentration}
    ELSE With(IF FLess(FZero, NumberSum(df[1])) THEN NumberSum(df[1]) ELSE FZero, LAMBDA total :
             IF ~FLess(FZero, total) THEN {NoConcentration}
             ELSE Concentration(df[1], total))

(***************************************************************************)
(* concentration_risk on its own: one call on each standardized table      *)
(***************************************************************************)
\* the cells of the raw tables
ConcSuppliers == {Cell("s", "A"), Cell("s", "B")}

ConcCustomers == {Cell("s", "X"), Cell("s", "Y")}

ConcNumbers == {Cell("i", "-3"), Cell("i", "0"), Cell("i", "5"), Cell("i", "10")}

ConcRow(s, c, n) == [k \in {"SupplierID", "CustomerID", "Number"} |->
                        IF k = "SupplierID" THEN s ELSE IF k = "CustomerID" THEN c ELSE n]

\* the raw tables of at most n rows, and no table
ConcTables(n) ==
    {None} \cup
    {Some([cols |-> <<"SupplierID", "CustomerID", "Number">>, rows |-> rows]) :
        rows \in UNION {[1..k -> {ConcRow(s, c, x) : s \in ConcSuppliers, c \in ConcCustomers,
                                                    x \in ConcNumbers}] : k \in 0..n}}

\* the table has been standardized, concentration_risk not called yet
ConcInit ==
    /\ SessionInit
    /\ probe \in {[raw |-> t, df |-> Some(standardize_dataset(t, "probe", NoMapping, Now).out),
                    result |-> None] : t \in ConcTables(MaxConcRows)}

\* conc = concentration_risk(df)
Concentrate ==
    /\ probe.result = None
    /\ \E r \in concentration_risk(probe.df) : probe' = [probe EXCEPT !.result = Some(r)]
    /\ UNCHANGED <<ss, source, page, last, default_ran>>

ConcNext == Concentrate

ConcSpec == ConcInit /\ [][ConcNext]_vars

(***************************************************************************)
(* The parsers on their own: each text is handed to one of them            *)
(***************************************************************************)
\* lines of the texts: JSON objects, a JSON number, text that is no JSON, a blank
\* line, a header, a row quoted with smart quotes, a row of 11 values, a JSON
\* object of 11 members, the header of the canonical columns
ParseLines ==
    {"{\"a\":1}", "{\"b\":\"u\"}", "5", "oops", "", "a,b", LDQUO \o "x,y" \o RDQUO \o ",2",
     "S1,20240101,C1,L1,Cat,U1,Dev,Lot1,Ser1,M1,10",
     "{\"a\":1,\"b\":2,\"c\":3,\"d\":4,\"e\":5,\"f\":6,\"g\":7,\"h\":8,\"i\":9,\"j\":10,\"k\":11}",
     "SupplierID,Deliverdate,CustomerID,LicenseNo,Category,UDID,DeviceNAME,LotNO,SerNo,Model,Number"}

RECURSIVE JoinLines(_)
\* "\n".join(q)
JoinLines(q) ==
    IF Len(q) = 0 THEN ""
    ELSE IF Len(q) = 1 THEN q[1]
    ELSE q[1] \o "\n" \o JoinLines(Tail(q))

\* the texts of 1 to n lines
ParseTexts(n) == {JoinLines(q) : q \in UNION {[1..k -> ParseLines] : k \in 1..n}}

\* no parser has been called on the text yet
ParseInit ==
    /\ SessionInit
    /\ probe \in {[text |-> t, parsed |-> None, hdrless |-> None, jsonl |-> None,
                   preview |-> None, loaded |-> None] : t \in ParseTexts(MaxParseLines)}

\* the text has not been handed to a parser
Uncalled ==
    /\ probe.parsed = None
    /\ probe.hdrless = None
    /\ probe.jsonl = None
    /\ probe.preview = None
    /\ probe.loaded = None

\* parse_dataset_text(text)
ParseText ==
    /\ Uncalled
    /\ probe' = [probe EXCEPT !.parsed = Some(parse_dataset_text(probe.text))]
    /\ UNCHANGED <<ss, source, page, last, default_ran>>

\* headerless_csv_to_required(text)
ParseHeaderless ==
    /\ Uncalled
    /\ probe' = [probe EXCEPT !.hdrless = Some(headerless_csv_to_required(probe.text))]
    /\ UNCHANGED <<ss, source, page, last, default_ran>>

\* parse_jsonl(text)
ParseJsonl ==
    /\ Uncalled
    /\ probe' = [probe EXCEPT !.jsonl = Some(parse_jsonl(probe.text))]
    /\ UNCHANGED <<ss, source, page, last, default_ran>>

\* the parsing a click on Preview does
ParsePreview ==
    /\ Uncalled
    /\ probe' = [probe EXCEPT !.preview = Some(PreviewParse(probe.text))]
    /\ UNCHANGED <<ss, source, page, last, default_ran>>

\* load_default_dataset() when the default file holds the text, for the texts
\* of at most MaxDefaultLines lines
ParseDefault ==
    /\ Uncalled
    /\ Len(Split(probe.text, "\n")) <= MaxDefaultLines
    /\ probe' = [probe EXCEPT !.loaded = Some(load_default_dataset(File(probe.text), Now))]
    /\ UNCHANGED <<ss, source, page, last, default_ran>>

ParseNext == ParseText \/ ParseHeaderless \/ ParseJsonl \/ ParsePreview \/ ParseDefault

ParseSpec == ParseInit /\ [][ParseNext]_vars

(***************************************************************************)
(* detect_format on its own: one call on each text                         *)
(***************************************************************************)
\* lines of the texts: a JSON object, text that is no JSON, a blank line
DetectLines == {"{\"a\":1}", "x", ""}

\* the sequences of at most n lines
DetectRuns(n) == UNION {[1..k -> DetectLines] : k \in 0..n}

\* n times the line
Repeated(line, n) == [i \in 1..n |-> line]

\* the texts: at most MaxDetectEnds lines, a run of at most MaxDetectPad equal
\* lines, and at most MaxDetectEnds lines
DetectTexts(ends, pad) ==
    {JoinLines(head \o Repeated(line, n) \o tail) :
        head \in DetectRuns(ends) \ {<<>>}, line \in {"", "x"}, n \in 0..pad,
        tail \in DetectRuns(ends)}

\* detect_format has not been called on the text yet
DetectInit ==
    /\ SessionInit
    /\ probe \in {[text |-> t, fmt |-> None] : t \in DetectTexts(MaxDetectEnds, MaxDetectPad)}

\* detect_format(text)
Detect ==
    /\ probe.fmt = None
    /\ probe' = [probe EXCEPT !.fmt = Some(detect_format(probe.text))]
    /\ UNCHANGED <<ss, source, page, last, default_ran>>

DetectNext == Detect

DetectSpec == DetectInit /\ [][DetectNext]_vars

(***************************************************************************)
(* gini_coefficient on its own: one call on each list of values            *)
(***************************************************************************)
\* 0.1, the float 0x1.999999999999ap-4
Tenth == Fin(0, NatOfHex("1999999999999a"), -56)

\* 2.0 ** 1023
Huge == Fin(0, <<1>>, 1023)

\* the values of the lists: None, a negative number, 0.0, 0.1, 1.0, 3.0, 2^1023,
\* inf and nan
GiniValues == {PyNone, FNeg(IntF(1)), FZero, Tenth, IntF(1), IntF(3), Huge, FInf(0), FNaN}

\* the lists of at most n values
GiniLists(n) == UNION {[1..k -> GiniValues] : k \in 0..n}

\* no call yet; compensated is the sum() of the interpreter that runs the program
GiniInit ==
    /\ SessionInit
    /\ probe \in {[values |-> v, compensated |-> c, result |-> None] :
                     v \in GiniLists(MaxGiniLen), c \in BOOLEAN}

\* gini_coefficient(values)
ComputeGini ==
    /\ probe.result = None
    /\ probe' = [probe EXCEPT !.result = Some(gini_coefficient(probe.values, probe.compensated))]
    /\ UNCHANGED <<ss, source, page, last, default_ran>>

GiniNext == ComputeGini

GiniSpec == GiniInit /\ [][GiniNext]_vars

(***************************************************************************)
(* Properties of standardize_dataset, read off the probe                   *)
(***************************************************************************)
\* the call has returned from the path for a table with rows and columns
Standardized == probe.result # None /\ probe.df # None /\ ~IsEmptyFrame(probe.df[1])

ProbeOut == probe.result[1].out

ProbeReport == probe.result[1].report

ProbeRows == 1..Len(ProbeOut.rows)

\* the input table as the mapping sees it, its column names stripped
ProbeRaw == StripColumns(probe.df[1])

\* tag is one of the tags of the flags text
HasFlag(flags, tag) == tag \in SeqToSet(Split(flags, "|"))

\* the float whose str is v is below zero
IsNegative(v) == At(v, 1) = "-" /\ v # "-0.0"

\* C11: for every raw value of the source column of Number, the Number of the
\* standardized row is a float that is not negative; a raw value that does not
\* parse as a number becomes exactly 0.0 and its row carries the tag bad_number.
C11_NumberNonNegative ==
    (Standardized /\ ProbeReport.mapping_used["Number"] # "") =>
        \A r \in ProbeRows :
            /\ ProbeOut.rows[r]["Number"].k = "f"
            /\ ~IsNegative(ProbeOut.rows[r]["Number"].v)
            /\ to_float(ProbeRaw.rows[r][ProbeReport.mapping_used["Number"]].v) = None =>
                   /\ ProbeOut.rows[r]["Number"].v = "0.0"
                   /\ HasFlag(ProbeOut.rows[r]["_quality_flags"].v, "bad_number")

\* C12: for a table with rows, missing_required lists a field of SupplierID,
\* Deliverdate, CustomerID, Model exactly when the trimmed value of that field is
\* empty in every standardized row, and it never lists Number.
C12_MissingIffAllEmpty ==
    Standardized =>
        /\ \A f \in {"SupplierID", "Deliverdate", "CustomerID", "Model"} :
               (f \in SeqToSet(ProbeReport.missing_required))
                   <=> (\A r \in ProbeRows : Strip(ProbeOut.rows[r][f].v) = "")
        /\ "Number" \notin SeqToSet(ProbeReport.missing_required)

\* SupplierID is empty in one row and filled in another, so it is not listed;
\* Model is empty in every row and is listed; no column maps to Number
C12_Witness ==
    /\ Standardized
    /\ ProbeReport.mapping_used["Number"] = ""
    /\ \E r \in ProbeRows : ProbeOut.rows[r]["SupplierID"].v = ""
    /\ \E r \in ProbeRows : ProbeOut.rows[r]["SupplierID"].v = "S1"
    /\ "SupplierID" \notin SeqToSet(ProbeReport.missing_required)
    /\ "Model" \in SeqToSet(ProbeReport.missing_required)

\* C13: the confidence of every report standardize_dataset returns is an
\* integer from 0 to 100.
C13_ConfidenceBounds == probe.result # None => ProbeReport.confidence \in 0..100

\* a table with rows whose columns all map and whose minimum fields are not all
\* filled has been scored
C13_Witness ==
    /\ Standardized
    /\ Cardinality({c \in CanonSet : ProbeReport.mapping_used[c] # ""}) = MaxProbeCols
    /\ ProbeReport.missing_required # <<>>
    /\ ProbeReport.confidence > 0

\* two standardized rows have the same value in each of the 11 canonical fields
SameCanonical(a, b) ==
    \A c \in CanonSet :
        \/ a[c].v = b[c].v
        \/ c = "Number" /\ {a[c].v, b[c].v} \subseteq {"0.0", "-0.0"}

\* the rows of the standardized table that carry the tag duplicate
TaggedDuplicate == {r \in ProbeRows : HasFlag(ProbeOut.rows[r]["_quality_flags"].v, "duplicate")}

\* C14: a standardized row carries the tag duplicate exactly when an earlier row
\* of the table has the same values in all 11 canonical fields, Deliverdate being
\* compared as its cleaned text; the first occurrence is not tagged, and
\* duplicates_flagged is the number of tagged rows.
C14_DuplicateIffEarlierEqual ==
    Standardized =>
        /\ \A r \in ProbeRows :
               r \in TaggedDuplicate
                   <=> \E q \in 1..(r - 1) : SameCanonical(ProbeOut.rows[q], ProbeOut.rows[r])
        /\ 1 \notin TaggedDuplicate
        /\ ProbeReport.coercions.duplicates_flagged = Cardinality(TaggedDuplicate)

\* two rows spell the same day differently, and the second is not tagged
C14_Witness ==
    /\ Standardized
    /\ Len(ProbeOut.rows) = 2
    /\ ProbeOut.rows[1]["_Deliverdate_dt"].k = "dt"
    /\ ProbeOut.rows[1]["_Deliverdate_dt"] = ProbeOut.rows[2]["_Deliverdate_dt"]
    /\ ProbeOut.rows[1]["Deliverdate"].v # ProbeOut.rows[2]["Deliverdate"].v
    /\ TaggedDuplicate = {}

\* two equal rows, the second of them tagged and counted
C14_WitnessTagged ==
    /\ Standardized
    /\ Len(ProbeOut.rows) = 2
    /\ ProbeOut.rows[1]["Deliverdate"].v = "20240105"
    /\ TaggedDuplicate = {2}
    /\ ProbeReport.coercions.duplicates_flagged = 1

\* the column names of the input table as the caller passed them
ProbeColumnNames == SeqToSet(probe.df[1].cols)

\* C15: for every canonical field, mapping_used holds the override's column when
\* the user mapping names a column of the input table, and the auto-mapping
\* result when the override is empty or names no column of the table; every
\* entry of mapping_used names a column of the table. Names are compared without
\* regard to surrounding blanks where that favours the program.
C15_OverrideWinsIfColumnExists ==
    Standardized =>
        \A c \in CanonSet :
            /\ (probe.user_mapping[c] # "" /\ probe.user_mapping[c] \in ProbeColumnNames)
                   => Strip(ProbeReport.mapping_used[c]) = Strip(probe.user_mapping[c])
            /\ (\/ probe.user_mapping[c] = ""
                \/ /\ probe.user_mapping[c] \notin ProbeColumnNames
                   /\ probe.user_mapping[c] \notin SeqToSet(ProbeRaw.cols))
                   => ProbeReport.mapping_used[c] = AutoMap(ProbeRaw.cols)[c]
            /\ ProbeReport.mapping_used[c] # ""
                   => ProbeReport.mapping_used[c] \in SeqToSet(ProbeRaw.cols)

\* the step is the second call, made on the table the first call returned
SecondCall == probe.result # None /\ probe'.df = Some(probe.result[1].out)

\* C16: standardizing the table standardize_dataset returned gives, row by row,
\* the same values in all 11 canonical fields.
C16_StandardizeIdempotent ==
    [][SecondCall =>
          /\ Len(probe'.result[1].out.rows) = Len(probe.result[1].out.rows)
          /\ \A r \in 1..Len(probe.result[1].out.rows) :
                 \A c \in CanonSet :
                     probe'.result[1].out.rows[r][c] = probe.result[1].out.rows[r][c]]_vars

(***************************************************************************)
(* Properties of the parsers                                               *)
(***************************************************************************)
\* C17: the text handed to CSV parsing is the input text, with no character
\* replaced: the table of the headered attempt is the one read_csv makes of the
\* (trimmed) input, and the table of the headerless attempt is the one read_csv
\* makes of the input without a header line.
C17_NoNormalizationBeforeCsv ==
    /\ (probe.parsed # None /\ probe.parsed[1].fmt = "csv")
           => /\ read_csv(Strip(probe.text), TRUE).ok
              /\ probe.parsed[1].df = read_csv(Strip(probe.text), TRUE).df
    /\ (probe.hdrless # None /\ probe.hdrless[1] # None)
           => /\ read_csv(probe.text, FALSE).ok
              /\ Len(read_csv(probe.text, FALSE).df.cols) = Len(REQUIRED_COLUMNS)
              /\ probe.hdrless[1][1]
                     = RenameColumns(read_csv(probe.text, FALSE).df, REQUIRED_COLUMNS)

\* the numbers of the lines of the text that are not blank
NonBlankLines(text) ==
    {i \in 1..Len(SplitLines(text)) : Strip(SplitLines(text)[i]) # ""}

\* the numbers of the non-blank lines that are not valid JSON, in order
InvalidLines(text) ==
    SelectSeq([i \in 1..Len(SplitLines(text)) |-> i],
              LAMBDA i : i \in NonBlankLines(text)
                         /\ ~json_loads(Strip(SplitLines(text)[i])).ok)

\* C18: parse_jsonl returns one record for every non-blank line that is valid
\* JSON and one warning, citing the 1-based number of the line, for every
\* non-blank line that is not; records plus warnings is the number of non-blank
\* lines, whatever lines fail.
C18_OneRecordOrWarningPerLine ==
    probe.jsonl # None =>
        /\ ~probe.jsonl[1].raised
        /\ probe.jsonl[1].warnings
               = [k \in 1..Len(InvalidLines(probe.text)) |->
                      "JSONL line " \o ToString(InvalidLines(probe.text)[k]) \o " parse failed"]
        /\ Len(probe.jsonl[1].df.rows) + Len(probe.jsonl[1].warnings)
               = Cardinality(NonBlankLines(probe.text))

\* the text is one line of 11 comma-separated values, none of them a canonical name
SingleHeaderlessRow(text) ==
    /\ Len(SplitLines(text)) = 1
    /\ Len(Split(text, ",")) = Len(REQUIRED_COLUMNS)
    /\ \A i \in 1..Len(Split(text, ",")) : Split(text, ",")[i] \notin SeqToSet(REQUIRED_COLUMNS)

\* C19: a text that is a single headerless line of exactly 11 values is parsed
\* into one record that holds the 11 values under the canonical names, in order.
C19_SingleHeaderlessLine ==
    (probe.preview # None /\ SingleHeaderlessRow(probe.text)) =>
        /\ ~probe.preview[1].raised
        /\ probe.preview[1].df.cols = REQUIRED_COLUMNS
        /\ Len(probe.preview[1].df.rows) = 1
        /\ \A i \in 1..Len(REQUIRED_COLUMNS) :
               probe.preview[1].df.rows[1][REQUIRED_COLUMNS[i]].v = Split(probe.text, ",")[i]

(***************************************************************************)
(* Properties of gini_coefficient                                          *)
(***************************************************************************)
\* g is a number from 0 to 1
InUnit(g) == g.k = "fin" /\ ~FLess(g, FZero) /\ ~FLess(IntF(1), g)

\* the list is one or more copies of one finite number that is 0 or more
SameConstant(values) ==
    /\ values # <<>>
    /\ values[1].k = "fin" /\ values[1].s = 0
    /\ \A i \in 1..Len(values) : values[i] = values[1]

\* C20: gini_coefficient returns a number from 0 to 1 for every list, and 0 for
\* the empty list, for a list of zeros and for a list that repeats one
\* non-negative number.
C20_GiniBoundsAndZeroCases ==
    probe.result # None =>
        /\ InUnit(probe.result[1])
        /\ (probe.values = <<>> \/ SameConstant(probe.values))
               => FEq(probe.result[1], FZero)

\* the value standardize_dataset makes of a raw cell for the canonical column c:
\* the trimmed text, or for Number the number read from it, 0.0 if there is none
CleanedCell(c, cell) ==
    IF c = "Number"
    THEN Cell("f", IF to_float(cell.v) = None THEN "0.0" ELSE to_float(cell.v)[1])
    ELSE Cell("s", Strip(cell.v))

\* C21: in the table standardized from a table with rows, each canonical column
\* holds, row by row, the cleaned or coerced values of the raw column that
\* mapping_used names for it, and the empty value in every row when mapping_used
\* has no entry for it, whatever the other raw columns are called.
C21_CanonicalFromMappedColumn ==
    Standardized =>
        \A c \in CanonSet : \A r \in ProbeRows :
            ProbeOut.rows[r][c]
                = CleanedCell(c, IF ProbeReport.mapping_used[c] # ""
                                 THEN ProbeRaw.rows[r][ProbeReport.mapping_used[c]]
                                 ELSE Cell("s", ""))

\* C22: every raw column that no entry of mapping_used names is in the
\* standardized table, after the 11 canonical columns, with the values it had.
C22_ExtrasKept ==
    Standardized =>
        \A x \in SeqToSet(ProbeRaw.cols) \ {ProbeReport.mapping_used[c] : c \in CanonSet} :
            /\ \E k \in (Len(REQUIRED_COLUMNS) + 1)..Len(ProbeOut.cols) : ProbeOut.cols[k] = x
            /\ \A r \in ProbeRows : ProbeOut.rows[r][x] = ProbeRaw.rows[r][x]

\* what the format detector says of the text, as parse_dataset_text asks it
DetectedFormat(text) == detect_format(normalize_smart_quotes(Strip(text)))

\* C23: a text that the format detector classifies as json or jsonl is never
\* parsed as headerless CSV with the canonical headers assigned by position,
\* neither by Preview nor by the load of the default dataset.
C23_HeaderlessOnlyForCsv ==
    DetectedFormat(probe.text) \in {"json", "jsonl"} =>
        /\ probe.hdrless # None => probe.hdrless[1] = None
        /\ probe.preview # None => probe.preview[1].fmt # "csv(headerless)"
        /\ probe.loaded # None
               => probe.loaded[1].warnings # <<"Default file parsed as headerless CSV.">>


\* the non-empty lines of a text
NonEmptyLines(text) == SelectSeq(SplitLines(text), LAMBDA ln : Strip(ln) # "")

\* a canonical field name occurs in the line, whatever the case of the letters
NamesCanonical(line) ==
    \E i \in 1..Len(REQUIRED_COLUMNS) : Contains(Lower(line), Lower(REQUIRED_COLUMNS[i]))

\* the text read without a header row
HeaderlessRead(text) == read_csv(normalize_smart_quotes(text), FALSE)

\* the text has 2 non-empty lines or more, no canonical name in the first of them,
\* and reads without a header row into exactly 11 columns
LooksHeaderless(text) ==
    With(NonEmptyLines(text), LAMBDA lines :
    With(HeaderlessRead(text), LAMBDA r :
        /\ Len(lines) >= 2
        /\ ~NamesCanonical(lines[1])
        /\ r.ok
        /\ Len(r.df.cols) = Len(REQUIRED_COLUMNS)))

\* the cell pandas makes of the field of a line
CellOfField(cell, field) ==
    \/ cell.k = "nan" /\ field \in STR_NA_VALUES
    \/ cell.k = "s" /\ cell.v = field
    \/ cell.k = "i" /\ cell.v = IntStr(field)
    \/ cell.k = "f" /\ cell.v = FloatStr(field)

\* the first row of the table holds the fields of the line (a line without quotes)
FirstRowIs(df, line) ==
    /\ Len(df.rows) >= 1
    /\ Contains(line, "\"")
           \/ /\ Len(Split(line, ",")) = Len(REQUIRED_COLUMNS)
              /\ \A k \in 1..Len(REQUIRED_COLUMNS) :
                     CellOfField(df.rows[1][REQUIRED_COLUMNS[k]], Split(line, ",")[k])

\* C24: for a text of 2 non-empty lines or more whose first line holds no canonical
\* field name and which reads without a header row into exactly 11 columns,
\* headerless_csv_to_required returns a table with the 11 canonical columns in
\* declared order, one row for each record, the first line being the first row;
\* when the first line holds a canonical name or the column count is not 11 it
\* returns nothing, and Preview then takes the result of parse_dataset_text.
C24_HeaderlessDetection ==
    Len(NonEmptyLines(probe.text)) >= 2 =>
        /\ probe.hdrless # None =>
               IF LooksHeaderless(probe.text)
               THEN /\ probe.hdrless[1] # None
                    /\ probe.hdrless[1][1].cols = REQUIRED_COLUMNS
                    /\ Len(probe.hdrless[1][1].rows) = Len(HeaderlessRead(probe.text).df.rows)
                    /\ FirstRowIs(probe.hdrless[1][1],
                                  normalize_smart_quotes(NonEmptyLines(probe.text)[1]))
               ELSE probe.hdrless[1] = None
        /\ probe.preview # None =>
               IF LooksHeaderless(probe.text)
               THEN /\ probe.preview[1].fmt = "csv(headerless)"
                    /\ probe.preview[1].df.cols = REQUIRED_COLUMNS
               ELSE /\ probe.preview[1] = parse_dataset_text(probe.text)
                    /\ DetectedFormat(probe.text) = "csv_or_text"
                           => probe.preview[1].fmt \in {"csv", "unknown"}

\* a headerless text was read into the canonical columns, and a text with the
\* canonical header and 11 columns was left to the parsing with a header
C24_Witness ==
    \/ /\ LooksHeaderless(probe.text)
       /\ probe.hdrless # None
       /\ probe.hdrless[1] # None
       /\ Len(probe.hdrless[1][1].rows) = 2
    \/ /\ Len(NonEmptyLines(probe.text)) >= 2
       /\ NamesCanonical(NonEmptyLines(probe.text)[1])
       /\ HeaderlessRead(probe.text).ok
       /\ Len(HeaderlessRead(probe.text).df.cols) = Len(REQUIRED_COLUMNS)
       /\ probe.preview # None
       /\ probe.preview[1].fmt = "csv"

\* how many of the lines start with "{", blanks before it aside
BraceLines(lines) == Cardinality({i \in 1..Len(lines) : StartsWith(Strip(lines[i]), "{")})

\* the first n of the lines
FirstLines(lines, n) == SubSeq(lines, 1, Min2(n, Len(lines)))

\* C25: for a non-empty text whose first non-space character is neither { nor [,
\* detect_format returns jsonl when at least 2 of the first 10 non-empty lines
\* start with {, and csv_or_text when they do not.
C25_JsonlIffTwoBraceLines ==
    (/\ probe.fmt # None
     /\ Strip(probe.text) # ""
     /\ ~StartsWith(Strip(probe.text), "{")
     /\ ~StartsWith(Strip(probe.text), "["))
        => probe.fmt[1] = IF BraceLines(FirstLines(NonEmptyLines(probe.text), 10)) >= 2
                          THEN "jsonl"
                          ELSE "csv_or_text"

(***************************************************************************)
(* Properties of the staged and the active dataset (checked under Spec)    *)
(***************************************************************************)
\* the table and the report are what one call of standardize_dataset on the raw
\* table returns, the report then annotated with its format and parse warnings
OneRun(raw, std, report) ==
    \E res \in {standardize_dataset(raw, report[1].source, report[1].mapping_used, Now)} :
        /\ std = Some(res.out)
        /\ report = Some(Annotate(res.report, report[1].detected_format,
                                  report[1].parse_warnings))

\* C26: in every reachable state the staged raw table, the staged standardized
\* table and the staged report are all present or all absent, and when present
\* the staged table and report are the result of one standardize run on the
\* staged raw table.
C26_StagedTogether ==
    /\ (ss.dataset_stage_raw = None) = (ss.dataset_stage_std = None)
    /\ (ss.dataset_stage_raw = None) = (ss.dataset_stage_report = None)
    /\ ss.dataset_stage_raw # None
           => OneRun(ss.dataset_stage_raw, ss.dataset_stage_std, ss.dataset_stage_report)

\* C27: right after an Import the Active Dataset has at least one row and the
\* active report lists no missing required field: an empty or unparseable input,
\* though Preview stages it, does not become the Active Dataset through Import.
C27_ImportedHasRows ==
    (last.op = "import" /\ last.fired) =>
        /\ Len(ss.dataset_df_active[1].rows) >= 1
        /\ ss.dataset_standardize_report_active[1].missing_required = <<>>
        /\ "Empty dataset" \notin SeqToSet(ss.dataset_standardize_report_active[1].warnings)

\* an Import has just made a staged table with rows the Active Dataset
C27_Witness ==
    /\ last.op = "import" /\ last.fired
    /\ Len(ss.dataset_df_active[1].rows) >= 1
    /\ ss.dataset_stage_raw # None
    /\ ss.dataset_stage_std = ss.dataset_df_active

\* table, warnings and report are what one default load returns
FromDefaultLoad(df, ws, report) ==
    \E file \in DefaultFiles :
        \E l \in {Lookup(DefaultLoaded, file)} :
            df = Some(l.std) /\ ws = Some(l.warnings) /\ report = Some(l.report)

\* table, warnings and report are what one Preview or Apply staged for a text:
\* the warnings are those of the parse, and the table and the report come from
\* one standardize run on the table parsed
FromOneStaging(df, ws, report) ==
    /\ report[1].source \in {"paste", UploadName}
    /\ \E text \in Texts :
          \E p \in {Lookup(PreviewParsed, text)} :
            /\ ~p.raised
            /\ ws = Some(p.warnings)
            /\ report[1].parse_warnings = p.warnings
            /\ report[1].detected_format = p.fmt
            /\ OneRun(Some(p.df), df, report)

\* C28: in every reachable state the active table, the active parse warnings
\* and the active report belong together: the three were written by one Import
\* or by one default load, and the report is the one of the standardize run that
\* made the table.
C28_ActiveTogether ==
    \/ Active(ss) = <<None, None, None>>
    \/ FromDefaultLoad(ss.dataset_df_active, ss.dataset_parse_warnings_active,
                       ss.dataset_standardize_report_active)
    \/ FromOneStaging(ss.dataset_df_active, ss.dataset_parse_warnings_active,
                      ss.dataset_standardize_report_active)

\* an imported table is the Active Dataset, after a default load had been
C28_Witness ==
    /\ default_ran
    /\ ss.dataset_df_active # None
    /\ Len(ss.dataset_df_active[1].rows) >= 1
    /\ ss.dataset_standardize_report_active[1].source = UploadName
    /\ FromOneStaging(ss.dataset_df_active, ss.dataset_parse_warnings_active,
                      ss.dataset_standardize_report_active)

\* C29: a load of the default dataset into the Active Dataset discards the
\* staged preview: after it the staged raw table, standardized table, report and
\* warnings are absent and Import is not offered, and with no staged table a
\* click on Import does not fire and leaves the Active Dataset as it was.
C29_DefaultLoadDiscardsStaged ==
    /\ [][(last'.op = "default" /\ last'.loaded) =>
             /\ ss'.dataset_stage_raw = None
             /\ ss'.dataset_stage_std = None
             /\ ss'.dataset_stage_report = None
             /\ ss'.dataset_stage_warnings = None
             /\ ~page'.import_enabled
             /\ ~CanImport(ss')]_vars
    /\ [][(last'.op = "import" /\ ss.dataset_stage_std = None) =>
             /\ ~last'.fired
             /\ Active(ss') = Active(ss)]_vars

\* a default load has just run in a session where a Preview had staged a table
C29_Witness ==
    /\ last.op = "default" /\ last.loaded
    /\ ss.dataset_stage_detected_fmt # None
    /\ ss.dataset_stage_raw = None

(***************************************************************************)
(* Properties of concentration_risk (checked under ConcSpec)               *)
(***************************************************************************)
\* the whole number a raw Number cell holds
RawNumber(cell) ==
    IF At(cell.v, 1) = "-" THEN 0 - DigitsValue(Unsigned(cell.v)) ELSE DigitsValue(cell.v)

RECURSIVE RawSum(_, _, _)
\* the Numbers of the raw rows whose column key holds k, added up
RawSum(rows, key, k) ==
    IF rows = <<>> THEN 0
    ELSE RawSum(Tail(rows), key, k) + (IF rows[1][key].v = k THEN RawNumber(rows[1]["Number"]) ELSE 0)

RECURSIVE RawTotal(_)
\* the Numbers of all raw rows, added up
RawTotal(rows) ==
    IF rows = <<>> THEN 0 ELSE RawTotal(Tail(rows)) + RawNumber(rows[1]["Number"])

\* k is a value of the column key with the largest sum of Number
LargestGroup(rows, key, k) ==
    /\ \E r \in 1..Len(rows) : rows[r][key].v = k
    /\ \A r \in 1..Len(rows) : RawSum(rows, key, rows[r][key].v) <= RawSum(rows, key, k)

\* C30: for every standardized table concentration_risk reports a supplier
\* share and a customer share in [0, 1]; the identifiers are None and the shares
\* 0.0 when the table is empty or the total of Number is not positive;
\* otherwise the supplier and the customer reported have the largest summed
\* Number.
C30_SharesInUnit ==
    probe.result # None =>
        /\ InUnit(probe.result[1].share)
        /\ InUnit(probe.result[1].customer_share)
        /\ IF probe.raw = None \/ probe.raw[1].rows = <<>> \/ RawTotal(probe.raw[1].rows) <= 0
           THEN probe.result[1] = NoConcentration
           ELSE /\ probe.result[1].top_supplier # None
                /\ LargestGroup(probe.raw[1].rows, "SupplierID", probe.result[1].top_supplier[1])
                /\ probe.result[1].top_customer # None
                /\ LargestGroup(probe.raw[1].rows, "CustomerID", probe.result[1].top_customer[1])
=========================================================================
